---- MODULE Spec2Model ----
(***************************************************************************)
(* x-bot: the action selector (chooseNextAction), the bot cycle            *)
(* (runBotCycle) and the scheduler that triggers it.                       *)
(*                                                                         *)
(* The repository holds three snapshots of the selector:                   *)
(*   "pool"   src/strategies/chooseAction.ts:1-233   (pool + random draw,  *)
(*            interaction queries stubbed out, "[NO-DB]")                  *)
(*   "seq"    src/strategies/chooseAction.ts:237-520 (sequential gates,    *)
(*            bypass flag, interaction queries stubbed out)                *)
(*   "prisma" unnamed/part_004                       (sequential gates,    *)
(*            interaction queries answered by the InteractionLog table)    *)
(* build says which snapshot a run executes; it never changes.            *)
(*                                                                         *)
(* Time is counted in minutes.  Strings whose characters matter (tweet     *)
(* texts, keywords) are sequences of one-character strings.                *)
(***************************************************************************)
EXTENDS Integers, Sequences, FiniteSets, TLC

VARIABLES
  build,            \* which snapshot of chooseNextAction runs
  simulateMode,     \* config.simulateMode
  env,              \* process.env: the cadence overrides
  now,              \* wall clock, minutes
  ticks,            \* number of clock advances so far (bounded)
  cycles,           \* number of bot cycles started so far (bounded)
  log,              \* the interaction log: records handed to logInteraction
  pc,               \* position of runBotCycle
  bypass,           \* bypassCadence argument of the running cycle
  candidates,       \* what fetchTweetCandidates returned in this cycle
  searchCalls,      \* calls of searchRecentTweets in this cycle
  searchFailed,     \* the search API answered the call of this cycle with an error
  dbErr,            \* interaction-log queries that throw in this cycle
  possibleActions,  \* the pool built by chooseNextAction in this cycle
  decision,         \* the ActionDecision of this cycle
  content,          \* result of generateContent in this cycle
  publishCalls,     \* Publisher calls made in this cycle
  publishResult,    \* what the Publisher call returned
  appends,          \* logInteraction calls made in this cycle
  children,         \* scheduler: state of each spawned bot process
  triggers,         \* scheduler: cron ticks / cron requests handled so far
  inFlight,         \* the external call in flight: its wrapper's attempts and outcome
  applied           \* a helper function applied on its own: its name, argument and result

vars == <<build, simulateMode, env, now, ticks, cycles, log, pc, bypass,
          candidates, searchCalls, searchFailed, dbErr, possibleActions, decision, content,
          publishCalls, publishResult, appends, children, triggers, inFlight, applied>>

cycleVars == <<build, simulateMode, env, now, ticks, cycles, log, pc, bypass,
               candidates, searchCalls, searchFailed, dbErr, possibleActions, decision, content,
               publishCalls, publishResult, appends, inFlight, applied>>

schedVars == <<children, triggers>>

----------------------------------------------------------------------------
(* Bounds of the model *)

MaxCycles == 2        \* bot cycles per behaviour
MaxTicks == 1         \* clock advances per behaviour
MaxCandidates == 2    \* tweets one search returns
MaxDbErrors == 1      \* distinct failing queries per cycle (or all of them)
MaxChildren == 3      \* bot processes spawned per behaviour
MaxTriggers == 4      \* cron slots and HTTP requests per behaviour

----------------------------------------------------------------------------
(* Program constants *)

TWITTER_POST_REPLY_LIMIT_24H == 100
TWITTER_REPOST_LIMIT_15M == 5
replyThreshold == 10
hoursSinceLastReplyAuthor == 48
ENGAGEMENT_THRESHOLD == replyThreshold
HOURS_SINCE_LAST_REPLY_AUTHOR == hoursSinceLastReplyAuthor

\* JavaScript's Infinity, returned by countRecentInteractions on a query
\* error: a number above every count and every limit of the model.
Infinity == 1000000

\* undefined / null of an optional string
NULL == "null"

MinutesPerHour == 60
MinutesPerDay == 24 * MinutesPerHour

----------------------------------------------------------------------------
(* Strings *)

UpperToLower ==
  ("A" :> "a") @@ ("B" :> "b") @@ ("C" :> "c") @@ ("D" :> "d") @@ ("E" :> "e") @@ ("F" :> "f") @@
  ("G" :> "g") @@ ("H" :> "h") @@ ("I" :> "i") @@ ("J" :> "j") @@ ("K" :> "k") @@ ("L" :> "l") @@
  ("M" :> "m") @@ ("N" :> "n") @@ ("O" :> "o") @@ ("P" :> "p") @@ ("Q" :> "q") @@ ("R" :> "r") @@
  ("S" :> "s") @@ ("T" :> "t") @@ ("U" :> "u") @@ ("V" :> "v") @@ ("W" :> "w") @@ ("X" :> "x") @@
  ("Y" :> "y") @@ ("Z" :> "z")

\* String.prototype.toLowerCase
toLowerCase(s) ==
  [i \in 1..Len(s) |-> IF s[i] \in DOMAIN UpperToLower THEN UpperToLower[s[i]] ELSE s[i]]

\* String.prototype.includes
includes(s, k) ==
  \E i \in 0..(Len(s) - Len(k)) : SubSeq(s, i + 1, i + Len(k)) = k

----------------------------------------------------------------------------
(* Configuration (config.ts) *)

\* config.topicKeywords: one keyword list per topic, in declaration order
topicKeywords ==
  <<
    \* productivity
    << <<"p","r","o","d","u","c","t","i","v","i","t","y">>,
       <<"a","u","t","o","m","a","t","i","o","n">>,
       <<"i","n","d","i","e"," ","h","a","c","k","i","n","g">>,
       <<"b","u","i","l","d"," ","i","n"," ","p","u","b","l","i","c">>,
       <<"S","a","a","S">>,
       <<"b","u","s","i","n","e","s","s"," ","p","r","o","c","e","s","s">> >>,
    \* design
    << <<"U","I","/","U","X"," ","d","e","s","i","g","n">>,
       <<"U","I"," ","d","e","s","i","g","n">>,
       <<"U","X"," ","d","e","s","i","g","n">>,
       <<"p","r","o","d","u","c","t"," ","d","e","s","i","g","n">>,
       <<"f","i","g","m","a">>,
       <<"w","e","b"," ","d","e","s","i","g","n">>,
       <<"d","e","s","i","g","n"," ","s","y","s","t","e","m","s">> >>,
    \* webdev
    << <<"w","e","b"," ","d","e","v","e","l","o","p","m","e","n","t">>,
       <<"t","y","p","e","s","c","r","i","p","t">>,
       <<"r","e","a","c","t">>,
       <<"n","e","x","t","j","s">>,
       <<"f","r","o","n","t","e","n","d">>,
       <<"v","i","b","e"," ","c","o","d","i","n","g">> >>,
    \* crypto
    << <<"c","r","y","p","t","o">>,
       <<"D","e","F","i">>,
       <<"w","e","b","3">>,
       <<"b","l","o","c","k","c","h","a","i","n">>,
       <<"N","F","T","s">>,
       <<"E","t","h","e","r","e","u","m">>,
       <<"L","2">>,
       <<"S","o","l","a","n","a">>,
       <<"B","a","s","e">> >>,
    \* apple
    << <<"A","p","p","l","e"," ","e","c","o","s","y","s","t","e","m">>,
       <<"i","O","S">>,
       <<"i","P","a","d","O","S">>,
       <<"m","a","c","O","S">> >>,
    \* scifi
    << <<"s","c","i","-","f","i"," ","f","u","t","u","r","e","s">>,
       <<"c","y","b","e","r","p","u","n","k">>,
       <<"s","o","l","a","r","p","u","n","k">>,
       <<"f","u","t","u","r","e"," ","t","e","c","h">> >>,
    \* minimalism
    << <<"m","i","n","i","m","a","l","i","s","m">>,
       <<"s","i","m","p","l","e"," ","l","i","v","i","n","g">> >>,
    \* lifeImprovement
    << <<"b","i","o","h","a","c","k","i","n","g">>,
       <<"h","e","a","l","t","h","t","e","c","h">>,
       <<"l","i","f","e"," ","i","m","p","r","o","v","e","m","e","n","t">> >>,
    \* indieHacking
    << <<"i","n","d","i","e"," ","h","a","c","k","i","n","g">>,
       <<"b","u","i","l","d"," ","i","n"," ","p","u","b","l","i","c">>,
       <<"b","o","o","t","s","t","r","a","p","p","i","n","g">>,
       <<"s","t","a","r","t","u","p">>,
       <<"s","i","d","e"," ","p","r","o","j","e","c","t">> >>,
    \* aiSoftware
    << <<"A","I"," ","a","g","e","n","t","s">>,
       <<"A","I"," ","s","o","f","t","w","a","r","e">>,
       <<"A","I"," ","a","r","t">>,
       <<"a","r","t","i","f","i","c","i","a","l"," ","i","n","t","e","l","l","i","g","e","n","c","e">>,
       <<"m","a","c","h","i","n","e"," ","l","e","a","r","n","i","n","g">> >>
  >>

EnvVars == {"CADENCE_MORNING_REPOSTS", "CADENCE_MORNING_ORIGINAL",
            "CADENCE_AFTERNOON_REPLIES", "CADENCE_AFTERNOON_ORIGINAL",
            "CADENCE_EVENING_REPLIES", "CADENCE_EVENING_REPOSTS",
            "CADENCE_EVENING_ORIGINAL"}

\* An environment variable is the set of its values: {} when unset.
EnvUnset == [v \in EnvVars |-> {}]
EnvZero == [v \in EnvVars |-> {0}]
EnvNoOriginal ==
  [v \in EnvVars |->
     IF v \in {"CADENCE_MORNING_ORIGINAL", "CADENCE_AFTERNOON_ORIGINAL",
                "CADENCE_EVENING_ORIGINAL"}
     THEN {0} ELSE {}]
Envs == {EnvUnset, EnvZero, EnvNoOriginal}

parseIntEnv(envVar, defaultValue) ==
  IF envVar = {} THEN defaultValue ELSE CHOOSE n \in envVar : TRUE

\* config.cadence, in declaration order; a window has only the budget keys
\* the configuration declares for it.
cadence ==
  << [startHour |-> 6, endHour |-> 12,
      reposts |-> parseIntEnv(env["CADENCE_MORNING_REPOSTS"], 2),
      original |-> parseIntEnv(env["CADENCE_MORNING_ORIGINAL"], 3)],
     [startHour |-> 13, endHour |-> 17,
      replies |-> parseIntEnv(env["CADENCE_AFTERNOON_REPLIES"], 2),
      original |-> parseIntEnv(env["CADENCE_AFTERNOON_ORIGINAL"], 1)],
     [startHour |-> 19, endHour |-> 24,
      replies |-> parseIntEnv(env["CADENCE_EVENING_REPLIES"], 1),
      reposts |-> parseIntEnv(env["CADENCE_EVENING_REPOSTS"], 2),
      original |-> parseIntEnv(env["CADENCE_EVENING_ORIGINAL"], 2)],
     [startHour |-> 0, endHour |-> 6,
      original |-> 1, replies |-> 1, reposts |-> 1] >>

\* the null window
NoWindow == [none |-> TRUE]

isNull(w) == "none" \in DOMAIN w

----------------------------------------------------------------------------
(* Helper functions of chooseAction.ts *)

\* variant: the text is searched as it is written
isTweetRelevantCaseSensitive(text) ==
  \E topic \in 1..Len(topicKeywords) :
    \E k \in 1..Len(topicKeywords[topic]) :
      includes(text, toLowerCase(topicKeywords[topic][k]))

isTweetRelevant(text) ==
  LET lowerText == toLowerCase(text)
  IN \E topic \in 1..Len(topicKeywords) :
       \E k \in 1..Len(topicKeywords[topic]) :
         includes(lowerText, toLowerCase(topicKeywords[topic][k]))

\* variant: the end hour of a window is taken to belong to it
getCurrentCadenceWindowInclusive(currentHour) ==
  LET hits == {i \in 1..Len(cadence) :
                 currentHour >= cadence[i].startHour /\ currentHour <= cadence[i].endHour}
  IN IF hits = {} THEN NoWindow
     ELSE cadence[CHOOSE i \in hits : \A j \in hits : i <= j]

\* variant: the loop goes on after a match, the last matching window wins
windowAtLast(windows, currentHour) ==
  LET hits == {i \in 1..Len(windows) :
                 currentHour >= windows[i].startHour /\ currentHour < windows[i].endHour}
  IN IF hits = {} THEN NoWindow
     ELSE windows[CHOOSE i \in hits : \A j \in hits : i >= j]

\* for (const windowKey in windows): the first window, in declaration
\* order, with startHour <= currentHour < endHour, else null
windowAt(windows, currentHour) ==
  LET hits == {i \in 1..Len(windows) :
                 currentHour >= windows[i].startHour /\ currentHour < windows[i].endHour}
  IN IF hits = {} THEN NoWindow
     ELSE windows[CHOOSE i \in hits : \A j \in hits : i <= j]

getCurrentCadenceWindow(currentHour) == windowAt(cadence, currentHour)

\* Date.getHours
getHours(t) == (t \div MinutesPerHour) % 24

\* Date.setHours(h, 0, 0, 0)
setHours(t, h) == t - (t % MinutesPerDay) + h * MinutesPerHour

----------------------------------------------------------------------------
(* Tweets the platform can return *)

\* a TweetCandidate; replyCount and quoteCount are never read and are left out
Tweet(id, text, authorId, authorFollowers, likeCount, retweetCount, ageMinutes) ==
  [id |-> id, text |-> text, authorId |-> authorId,
   authorFollowers |-> authorFollowers, likeCount |-> likeCount,
   retweetCount |-> retweetCount, createdAt |-> now - ageMinutes]

\* t1: relevant ("figma", in capitals), score 40
\* t2: relevant ("SaaS"), score 5, below the reply threshold
\* t3: not relevant, score 60, same author as t1
Timeline ==
  { Tweet("t1", <<"F","I","G","M","A"," ","t","i","p","s">>, "a1", 100, 4, 0, 1),
    Tweet("t2", <<"m","y"," ","S","a","a","S">>, "a2", 100, 1, 0, 2),
    Tweet("t3", <<"r","a","n","d","o","m">>, "a1", 100, 6, 0, 1) }

TweetIds == {"t1", "t2", "t3"}
Authors == {"a1", "a2"}

\* the lists of distinct tweets a search can return
TweetLists ==
  {s \in UNION {[1..n -> Timeline] : n \in 0..MaxCandidates} :
     \A i, j \in 1..Len(s) : i # j => s[i] # s[j]}

\* what the search API answers: an error, or a list of tweets
ApiResponses ==
  {[ok |-> FALSE, tweets |-> <<>>]} \cup {[ok |-> TRUE, tweets |-> s] : s \in TweetLists}

----------------------------------------------------------------------------
(* Engagement score *)

\* Math.sqrt on the perfect squares the model uses for follower counts
Sqrt(n) == CHOOSE r \in 0..n : r * r = n

\* variant: only a negative age is turned away, age zero is divided by
calculateEngagementScoreZeroAge(tweet) ==
  LET ageMinutes == now - tweet.createdAt
  IN IF ageMinutes < 0 THEN [num |-> 0, den |-> 1]
     ELSE [num |-> Sqrt(tweet.authorFollowers) * (2 * tweet.likeCount + 3 * tweet.retweetCount),
           den |-> 2 * ageMinutes]

\* variant: the likes are left out of the score
calculateEngagementScoreNoLikes(tweet) ==
  LET ageMinutes == now - tweet.createdAt
  IN IF ageMinutes <= 0 THEN [num |-> 0, den |-> 1]
     ELSE [num |-> Sqrt(tweet.authorFollowers) * (3 * tweet.retweetCount),
           den |-> 2 * ageMinutes]

\* The score sqrt(followers) * (likes + 1.5 * retweets) / ageMinutes as the
\* exact fraction num / den.
calculateEngagementScore(tweet) ==
  LET ageMinutes == now - tweet.createdAt
  IN IF ageMinutes <= 0 THEN [num |-> 0, den |-> 1]
     ELSE [num |-> Sqrt(tweet.authorFollowers) * (2 * tweet.likeCount + 3 * tweet.retweetCount),
           den |-> 2 * ageMinutes]

\* a > b on scores
ScoreGreater(a, b) == a.num * b.den > b.num * a.den

\* score > n for an integer n
ScoreAbove(a, n) == a.num > n * a.den

RECURSIVE sortByScoreDesc(_)
\* Array.prototype.sort((a, b) => score(b) - score(a)): stable, descending
sortByScoreDesc(s) ==
  IF Len(s) = 0 THEN <<>>
  ELSE LET front == sortByScoreDesc(SubSeq(s, 1, Len(s) - 1))
           x == s[Len(s)]
           p == Cardinality({i \in 1..Len(front) :
                  ~ScoreGreater(calculateEngagementScore(x), calculateEngagementScore(front[i]))})
       IN SubSeq(front, 1, p) \o <<x>> \o SubSeq(front, p + 1, Len(front))

\* the elements of an array
elements(s) == {s[i] : i \in 1..Len(s)}

\* Array.prototype.filter, keep being the elements the callback accepts
filter(s, keep) ==
  LET F[i \in 0..Len(s)] ==
        IF i = 0 THEN <<>>
        ELSE IF s[i] \in keep THEN Append(F[i - 1], s[i]) ELSE F[i - 1]
  IN F[Len(s)]

\* index of the first element in keep, 0 if there is none
firstIndex(s, keep) ==
  LET hits == {i \in 1..Len(s) : s[i] \in keep}
  IN IF hits = {} THEN 0 ELSE CHOOSE i \in hits : \A j \in hits : i <= j

----------------------------------------------------------------------------
(* The interaction log and its queries *)

InteractionRecord(type, targetId, authorId) ==
  [type |-> type, targetId |-> targetId, authorId |-> authorId, createdAt |-> now]

\* an interaction-log query, as the environment sees it
Query(op, arg, since) == [op |-> op, arg |-> arg, since |-> since]

\* start of the accounting window of a cycle that is inside window w
windowStart(w) == setHours(now, w.startHour)

\* the queries the database snapshot can send in a cycle
DbQueries ==
  LET w == getCurrentCadenceWindow(getHours(now))
      starts == IF isNull(w) THEN {} ELSE {windowStart(w)}
  IN {Query("count", {"original_post", "reply"}, now - MinutesPerDay),
      Query("count", {"repost"}, now - 15)}
     \cup {Query("count", {ty}, s) : ty \in {"reply", "repost", "original_post"}, s \in starts}
     \cup {Query("findReply", {a}, now - HOURS_SINCE_LAST_REPLY_AUTHOR * MinutesPerHour) : a \in Authors}
     \cup {Query("findRepost", {t}, now - 7 * MinutesPerDay) : t \in TweetIds}

\* the sets of queries that throw in one cycle: a few of them, or all
DbErrors ==
  IF build = "prisma" /\ ~simulateMode
  THEN {f \in SUBSET DbQueries : Cardinality(f) <= MaxDbErrors} \cup {DbQueries}
  ELSE {{}}

\* prisma.interactionLog.count
prismaCount(type, sinceDate) ==
  Cardinality({i \in 1..Len(log) : log[i].type \in type /\ log[i].createdAt >= sinceDate})

\* variant: the catch block reports an empty log instead of Infinity
countRecentInteractionsFailOpen(type, sinceDate, failing) ==
  IF build # "prisma" THEN 0
  ELSE IF simulateMode THEN 0
  ELSE IF Query("count", type, sinceDate) \in failing THEN 0
  ELSE prismaCount(type, sinceDate)

\* the [NO-DB] stub of the current file, and part_004:79-108
countRecentInteractions(type, sinceDate, failing) ==
  IF build # "prisma" THEN 0
  ELSE IF simulateMode THEN 0
  ELSE IF Query("count", type, sinceDate) \in failing THEN Infinity
  ELSE prismaCount(type, sinceDate)

\* the [NO-DB] stub of the current file, and part_004:115-148
hasRepostedTweetRecently(targetTweetId, failing) ==
  IF build # "prisma" THEN FALSE
  ELSE LET cutoffDate == now - 7 * MinutesPerDay
       IN IF simulateMode THEN FALSE
          ELSE IF Query("findRepost", {targetTweetId}, cutoffDate) \in failing THEN TRUE
          ELSE \E i \in 1..Len(log) :
                 /\ log[i].targetId = targetTweetId
                 /\ log[i].type = "repost"
                 /\ log[i].createdAt >= cutoffDate

\* variant: the catch block answers "not replied" instead of "replied"
hasRepliedToAuthorRecentlyFailOpen(authorId, failing) ==
  IF build # "prisma" THEN FALSE
  ELSE LET cutoffDate == now - HOURS_SINCE_LAST_REPLY_AUTHOR * MinutesPerHour
       IN IF simulateMode THEN FALSE
          ELSE IF Query("findReply", {authorId}, cutoffDate) \in failing THEN FALSE
          ELSE \E i \in 1..Len(log) :
                 /\ log[i].authorId = authorId
                 /\ log[i].type = "reply"
                 /\ log[i].createdAt >= cutoffDate

\* the [NO-DB] stub of the current file, and part_004:182-214
hasRepliedToAuthorRecently(authorId, failing) ==
  IF build # "prisma" THEN FALSE
  ELSE LET cutoffDate == now - HOURS_SINCE_LAST_REPLY_AUTHOR * MinutesPerHour
       IN IF simulateMode THEN FALSE
          ELSE IF Query("findReply", {authorId}, cutoffDate) \in failing THEN TRUE
          ELSE \E i \in 1..Len(log) :
                 /\ log[i].authorId = authorId
                 /\ log[i].type = "reply"
                 /\ log[i].createdAt >= cutoffDate

----------------------------------------------------------------------------
(* The candidate source *)

\* variant: the search goes to the API in simulate mode too
searchRecentTweetsLive(count, api) ==
  IF ~api.ok THEN <<>>
  ELSE api.tweets

\* variant: a failed search falls back to a tweet kept from an earlier search
searchRecentTweetsStale(count, api) ==
  IF simulateMode THEN <<>>
  ELSE IF ~api.ok THEN <<CHOOSE t \in Timeline : t.id = "t1">>
  ELSE api.tweets

searchRecentTweets(count, api) ==
  IF simulateMode THEN <<>>
  ELSE IF ~api.ok THEN <<>>
  ELSE api.tweets

fetchTweetCandidates(api) == searchRecentTweets(20, api)

----------------------------------------------------------------------------
(* chooseNextAction *)

\* what one run of chooseNextAction leaves behind
Outcome(d, pool, calls, fetched) ==
  [decision |-> d, possibleActions |-> pool, searchCalls |-> calls, candidates |-> fetched]

\* 'key' in currentWindow ? currentWindow[key] : 0
budgetOf(w, key) == IF key \in DOMAIN w THEN w[key] ELSE 0

\* Math.random() is random / RandomSteps; Math.floor(Math.random() * length)
RandomSteps == 4

randomIndexOf(random, length) == (random * length) \div RandomSteps

\* variant: an empty pool falls back to an original post
finalDecisionDefaultPost(pool, random) ==
  IF Len(pool) = 0
  THEN [type |-> "original_post", reason |-> "No valid actions available."]
  ELSE pool[randomIndexOf(random, Len(pool)) + 1] @@ [reason |-> "Randomly selected"]

\* the final decision from the pool of possible actions
finalDecision(pool, random) ==
  IF Len(pool) = 0
  THEN [type |-> "ignore", reason |-> "No valid actions available."]
  ELSE pool[randomIndexOf(random, Len(pool)) + 1] @@ [reason |-> "Randomly selected"]

\* variant: the quote tweet targets the first relevant tweet in the order
\* fetched, not the one with the best engagement score
originalPossibilitiesFirstFetched(bypassCadence, relevantCandidates, failing) ==
  LET currentWindow == getCurrentCadenceWindow(getHours(now))
      cadenceCheckStartDate == now - MinutesPerDay
      allowedOriginals == IF bypassCadence THEN 1 ELSE budgetOf(currentWindow, "original")
      recentOriginalCount ==
        countRecentInteractions({"original_post", "quote_tweet"}, cadenceCheckStartDate, failing)
  IN IF allowedOriginals > 0 /\ recentOriginalCount < allowedOriginals
     THEN <<[type |-> "original_post"]>> \o
          (IF Len(relevantCandidates) > 0
           THEN <<[type |-> "quote_tweet", targetTweet |-> relevantCandidates[1]]>>
           ELSE <<>>)
     ELSE <<>>

\* variant: the budget test is off by one, the last original post of a
\* window's budget is never offered
originalPossibilitiesOffByOne(bypassCadence, relevantCandidates, failing) ==
  LET currentWindow == getCurrentCadenceWindow(getHours(now))
      cadenceCheckStartDate == now - MinutesPerDay
      allowedOriginals == IF bypassCadence THEN 1 ELSE budgetOf(currentWindow, "original")
      recentOriginalCount ==
        countRecentInteractions({"original_post", "quote_tweet"}, cadenceCheckStartDate, failing)
  IN IF allowedOriginals > 0 /\ recentOriginalCount < allowedOriginals - 1
     THEN <<[type |-> "original_post"]>> \o
          (IF Len(relevantCandidates) > 0
           THEN <<[type |-> "quote_tweet",
                   targetTweet |-> sortByScoreDesc(relevantCandidates)[1]]>>
           ELSE <<>>)
     ELSE <<>>

\* variant: the quote tweet is pushed without the relevantCandidates.length
\* test, so that bestCandidate may be undefined
originalPossibilitiesUnchecked(bypassCadence, relevantCandidates, failing) ==
  LET currentWindow == getCurrentCadenceWindow(getHours(now))
      cadenceCheckStartDate == now - MinutesPerDay
      allowedOriginals == IF bypassCadence THEN 1 ELSE budgetOf(currentWindow, "original")
      recentOriginalCount ==
        countRecentInteractions({"original_post", "quote_tweet"}, cadenceCheckStartDate, failing)
  IN IF allowedOriginals > 0 /\ recentOriginalCount < allowedOriginals
     THEN <<[type |-> "original_post"]>> \o
          (IF Len(relevantCandidates) > 0
           THEN <<[type |-> "quote_tweet",
                   targetTweet |-> sortByScoreDesc(relevantCandidates)[1]]>>
           ELSE <<[type |-> "quote_tweet"]>>)
     ELSE <<>>

\* 1. original post and quote tweet (chooseAction.ts:158-175)
originalPossibilities(bypassCadence, relevantCandidates, failing) ==
  LET currentWindow == getCurrentCadenceWindow(getHours(now))
      cadenceCheckStartDate == now - MinutesPerDay
      allowedOriginals == IF bypassCadence THEN 1 ELSE budgetOf(currentWindow, "original")
      recentOriginalCount ==
        countRecentInteractions({"original_post", "quote_tweet"}, cadenceCheckStartDate, failing)
  IN IF allowedOriginals > 0 /\ recentOriginalCount < allowedOriginals
     THEN <<[type |-> "original_post"]>> \o
          (IF Len(relevantCandidates) > 0
           THEN <<[type |-> "quote_tweet",
                   targetTweet |-> sortByScoreDesc(relevantCandidates)[1]]>>
           ELSE <<>>)
     ELSE <<>>

\* variant: the repost scan has no break, every relevant tweet not reposted
\* recently is pushed
repostPossibilitiesNoBreak(bypassCadence, relevantCandidates, failing) ==
  LET currentWindow == getCurrentCadenceWindow(getHours(now))
      cadenceCheckStartDate == now - MinutesPerDay
      allowedReposts == IF bypassCadence THEN 1 ELSE budgetOf(currentWindow, "reposts")
      recentRepostCountCadence ==
        countRecentInteractions({"repost"}, cadenceCheckStartDate, failing)
      recentRepostsCount15m == countRecentInteractions({"repost"}, now - 15, failing)
      sortedRelevant == sortByScoreDesc(relevantCandidates)
      eligible ==
        filter(sortedRelevant,
               {t \in elements(sortedRelevant) : ~hasRepostedTweetRecently(t.id, failing)})
  IN IF /\ allowedReposts > 0
        /\ recentRepostCountCadence < allowedReposts
        /\ recentRepostsCount15m < TWITTER_REPOST_LIMIT_15M
     THEN [i \in 1..Len(eligible) |-> [type |-> "repost", targetTweet |-> eligible[i]]]
     ELSE <<>>

\* variant: the repost scan takes the relevant tweets in the order fetched
repostPossibilitiesUnsorted(bypassCadence, relevantCandidates, failing) ==
  LET currentWindow == getCurrentCadenceWindow(getHours(now))
      cadenceCheckStartDate == now - MinutesPerDay
      allowedReposts == IF bypassCadence THEN 1 ELSE budgetOf(currentWindow, "reposts")
      recentRepostCountCadence ==
        countRecentInteractions({"repost"}, cadenceCheckStartDate, failing)
      recentRepostsCount15m == countRecentInteractions({"repost"}, now - 15, failing)
      repostIdx ==
        IF /\ allowedReposts > 0
           /\ recentRepostCountCadence < allowedReposts
           /\ recentRepostsCount15m < TWITTER_REPOST_LIMIT_15M
        THEN firstIndex(relevantCandidates,
               {t \in elements(relevantCandidates) : ~hasRepostedTweetRecently(t.id, failing)})
        ELSE 0
  IN IF repostIdx > 0
     THEN <<[type |-> "repost", targetTweet |-> relevantCandidates[repostIdx]]>>
     ELSE <<>>

\* 2. repost (chooseAction.ts:177-196)
repostPossibilities(bypassCadence, relevantCandidates, failing) ==
  LET currentWindow == getCurrentCadenceWindow(getHours(now))
      cadenceCheckStartDate == now - MinutesPerDay
      allowedReposts == IF bypassCadence THEN 1 ELSE budgetOf(currentWindow, "reposts")
      recentRepostCountCadence ==
        countRecentInteractions({"repost"}, cadenceCheckStartDate, failing)
      recentRepostsCount15m == countRecentInteractions({"repost"}, now - 15, failing)
      sortedRelevant == sortByScoreDesc(relevantCandidates)
      repostIdx ==
        IF /\ allowedReposts > 0
           /\ recentRepostCountCadence < allowedReposts
           /\ recentRepostsCount15m < TWITTER_REPOST_LIMIT_15M
        THEN firstIndex(sortedRelevant,
               {t \in elements(sortedRelevant) : ~hasRepostedTweetRecently(t.id, failing)})
        ELSE 0
  IN IF repostIdx > 0
     THEN <<[type |-> "repost", targetTweet |-> sortedRelevant[repostIdx]]>>
     ELSE <<>>

\* variant: the engagement filter keeps the tweets at or below the threshold
replyPossibilitiesInverted(bypassCadence, allCandidates, failing) ==
  LET currentWindow == getCurrentCadenceWindow(getHours(now))
      cadenceCheckStartDate == now - MinutesPerDay
      allowedReplies == IF bypassCadence THEN 1 ELSE budgetOf(currentWindow, "replies")
      recentReplyCount == countRecentInteractions({"reply"}, cadenceCheckStartDate, failing)
      replyCandidates ==
        sortByScoreDesc(filter(allCandidates,
          {t \in elements(allCandidates) :
             ~ScoreAbove(calculateEngagementScore(t), ENGAGEMENT_THRESHOLD)}))
      replyIdx ==
        IF allowedReplies > 0 /\ recentReplyCount < allowedReplies
        THEN firstIndex(replyCandidates,
               {t \in elements(replyCandidates) :
                  ~hasRepliedToAuthorRecently(t.authorId, failing)})
        ELSE 0
  IN IF replyIdx > 0
     THEN <<[type |-> "reply", targetTweet |-> replyCandidates[replyIdx]]>>
     ELSE <<>>

\* 3. reply (chooseAction.ts:198-217)
replyPossibilities(bypassCadence, allCandidates, failing) ==
  LET currentWindow == getCurrentCadenceWindow(getHours(now))
      cadenceCheckStartDate == now - MinutesPerDay
      allowedReplies == IF bypassCadence THEN 1 ELSE budgetOf(currentWindow, "replies")
      recentReplyCount == countRecentInteractions({"reply"}, cadenceCheckStartDate, failing)
      replyCandidates ==
        sortByScoreDesc(filter(allCandidates,
          {t \in elements(allCandidates) :
             ScoreAbove(calculateEngagementScore(t), ENGAGEMENT_THRESHOLD)}))
      replyIdx ==
        IF allowedReplies > 0 /\ recentReplyCount < allowedReplies
        THEN firstIndex(replyCandidates,
               {t \in elements(replyCandidates) :
                  ~hasRepliedToAuthorRecently(t.authorId, failing)})
        ELSE 0
  IN IF replyIdx > 0
     THEN <<[type |-> "reply", targetTweet |-> replyCandidates[replyIdx]]>>
     ELSE <<>>

\* variant: the repost scan runs over all candidates, not the relevant ones
poolOfUnfiltered(bypassCadence, allCandidates, failing) ==
  LET relevantCandidates == filter(allCandidates, {t \in elements(allCandidates) : isTweetRelevant(t.text)})
  IN originalPossibilities(bypassCadence, relevantCandidates, failing)
     \o repostPossibilities(bypassCadence, allCandidates, failing)
     \o replyPossibilities(bypassCadence, allCandidates, failing)

\* the pool of possible actions, in the order the snapshot pushes them
poolOf(bypassCadence, allCandidates, failing) ==
  LET relevantCandidates == filter(allCandidates, {t \in elements(allCandidates) : isTweetRelevant(t.text)})
  IN originalPossibilities(bypassCadence, relevantCandidates, failing)
     \o repostPossibilities(bypassCadence, relevantCandidates, failing)
     \o replyPossibilities(bypassCadence, allCandidates, failing)

\* variant: the bypass flag does not lift the window test
chooseNextActionPoolWindowed(bypassCadence, api, failing, random) ==
  LET currentWindow == getCurrentCadenceWindow(getHours(now))
  IN IF isNull(currentWindow)
     THEN Outcome([type |-> "ignore", reason |-> "Outside of defined cadence windows."],
                  <<>>, 0, <<>>)
     ELSE LET allCandidates == fetchTweetCandidates(api)
              pool == poolOf(bypassCadence, allCandidates, failing)
          IN Outcome(finalDecision(pool, random), pool, 1, allCandidates)

\* chooseAction.ts:133-233, the pool snapshot
chooseNextActionPool(bypassCadence, api, failing, random) ==
  LET currentWindow == getCurrentCadenceWindow(getHours(now))
  IN IF ~bypassCadence /\ isNull(currentWindow)
     THEN Outcome([type |-> "ignore", reason |-> "Outside of defined cadence windows."],
                  <<>>, 0, <<>>)
     ELSE LET allCandidates == fetchTweetCandidates(api)
              pool == poolOf(bypassCadence, allCandidates, failing)
          IN Outcome(finalDecision(pool, random), pool, 1, allCandidates)

\* the gates of the sequential snapshots once the candidates are fetched
gatesOf(bypassCadence, sorted, failing, recentRepostsCount15m, allowedReplies, allowedReposts, allowedOriginals) ==
  LET currentHour == getHours(now)
      currentWindow == getCurrentCadenceWindow(currentHour)
      cadenceCheckStartDate ==
        IF bypassCadence THEN now - MinutesPerDay
        ELSE IF ~isNull(currentWindow) THEN windowStart(currentWindow)
        ELSE setHours(now, currentHour)
      \* 1. reply
      recentReplyCount == countRecentInteractions({"reply"}, cadenceCheckStartDate, failing)
      replyIdx ==
        IF allowedReplies > 0 /\ recentReplyCount < allowedReplies
        THEN firstIndex(sorted,
               {t \in elements(sorted) :
                  /\ ScoreAbove(calculateEngagementScore(t), ENGAGEMENT_THRESHOLD)
                  /\ ~hasRepliedToAuthorRecently(t.authorId, failing)
                  /\ isTweetRelevant(t.text)})
        ELSE 0
      \* 2. repost
      recentRepostCountCadence ==
        countRecentInteractions({"repost"}, cadenceCheckStartDate, failing)
      relevantCandidates == filter(sorted, {t \in elements(sorted) : isTweetRelevant(t.text)})
      repostIdx ==
        IF /\ allowedReposts > 0
           /\ recentRepostCountCadence < allowedReposts
           /\ recentRepostsCount15m < TWITTER_REPOST_LIMIT_15M
        THEN firstIndex(relevantCandidates,
               {t \in elements(relevantCandidates) : ~hasRepostedTweetRecently(t.id, failing)})
        ELSE 0
      \* 3. original post
      recentOriginalCount ==
        countRecentInteractions({"original_post"}, cadenceCheckStartDate, failing)
  IN IF replyIdx > 0
     THEN [type |-> "reply", reason |-> "High engagement score",
           targetTweet |-> sorted[replyIdx]]
     ELSE IF repostIdx > 0
     THEN [type |-> "repost", reason |-> "Found relevant candidate within cadence",
           targetTweet |-> relevantCandidates[repostIdx]]
     ELSE IF allowedOriginals > 0 /\ recentOriginalCount < allowedOriginals
     THEN [type |-> "original_post", reason |-> "Cadence allows original post"]
     ELSE [type |-> "ignore", reason |-> "No suitable candidates found"]

\* chooseAction.ts:373-520 and part_004:221-353, the sequential snapshots;
\* part_004 has no bypass argument and runs as bypassCadence = FALSE
chooseNextActionSeq(bypassCadence, api, failing) ==
  LET recentPostsAndRepliesCount24h ==
        countRecentInteractions({"original_post", "reply"}, now - MinutesPerDay, failing)
      recentRepostsCount15m == countRecentInteractions({"repost"}, now - 15, failing)
      currentWindow == getCurrentCadenceWindow(getHours(now))
      allowedReplies ==
        IF bypassCadence THEN 10
        ELSE IF ~isNull(currentWindow) THEN budgetOf(currentWindow, "replies") ELSE 0
      allowedReposts ==
        IF bypassCadence THEN 10
        ELSE IF ~isNull(currentWindow) THEN budgetOf(currentWindow, "reposts") ELSE 0
      allowedOriginals ==
        IF bypassCadence THEN 10
        ELSE IF ~isNull(currentWindow) THEN budgetOf(currentWindow, "original") ELSE 0
  IN IF recentPostsAndRepliesCount24h >= TWITTER_POST_REPLY_LIMIT_24H
     THEN Outcome([type |-> "ignore", reason |-> "24-hour Post/Reply limit reached"],
                  <<>>, 0, <<>>)
     ELSE IF /\ ~bypassCadence
             /\ \/ isNull(currentWindow)
                \/ (allowedReplies = 0 /\ allowedReposts = 0 /\ allowedOriginals = 0)
     THEN Outcome([type |-> "ignore",
                   reason |-> "No actions allowed in the current cadence window"],
                  <<>>, 0, <<>>)
     ELSE LET candidates0 == sortByScoreDesc(fetchTweetCandidates(api))
          IN Outcome(gatesOf(bypassCadence, candidates0, failing, recentRepostsCount15m,
                             allowedReplies, allowedReposts, allowedOriginals),
                     <<>>, 1, candidates0)

chooseNextAction(bypassCadence, api, failing, random) ==
  IF build = "pool"
  THEN chooseNextActionPool(bypassCadence, api, failing, random)
  ELSE chooseNextActionSeq(bypassCadence, api, failing)

----------------------------------------------------------------------------
(* Content generator and publisher, as runBotCycle sees them *)

SimulatedContent == "[Simulated OpenAI Content]"
GeneratedText == "generated text"
NewTweetId == "1001"

\* generateContent: the text, or null on failure or on the harmful-content
\* screen; llmOk says whether the model delivered acceptable text
generateContent(llmOk) ==
  IF simulateMode THEN SimulatedContent
  ELSE IF llmOk THEN GeneratedText ELSE NULL

\* what a Publisher call returned: ok is the truthiness runBotCycle tests
Returned(call, id, ok) == [call |-> call, id |-> id, ok |-> ok]

postTweet(text, platformOk) ==
  IF simulateMode THEN Returned("postTweet", "simulated_tweet_id", TRUE)
  ELSE IF platformOk THEN Returned("postTweet", NewTweetId, TRUE)
  ELSE Returned("postTweet", NULL, FALSE)

replyToTweet(text, tweetId, platformOk) ==
  IF simulateMode THEN Returned("replyToTweet", "simulated_reply_id", TRUE)
  ELSE IF platformOk THEN Returned("replyToTweet", NewTweetId, TRUE)
  ELSE Returned("replyToTweet", NULL, FALSE)

retweet(tweetId, platformOk) ==
  IF simulateMode THEN Returned("retweet", NULL, TRUE)
  ELSE Returned("retweet", NULL, platformOk)

quoteTweet(text, tweetId, platformOk) ==
  IF simulateMode THEN Returned("quoteTweet", "simulated_quote_tweet_id", TRUE)
  ELSE IF platformOk THEN Returned("quoteTweet", NewTweetId, TRUE)
  ELSE Returned("quoteTweet", NULL, FALSE)

\* variant: replies and quote tweets are logged under the id of the tweet
\* they answer, reposts with the author of the reposted tweet
loggedRecordOfTarget(d, result) ==
  IF d.type = "reply"
  THEN InteractionRecord("reply", d.targetTweet.id, d.targetTweet.authorId)
  ELSE IF d.type = "repost"
  THEN InteractionRecord("repost", d.targetTweet.id, d.targetTweet.authorId)
  ELSE IF d.type = "quote_tweet"
  THEN InteractionRecord("quote_tweet", d.targetTweet.id, d.targetTweet.authorId)
  ELSE InteractionRecord("original_post", result.id, NULL)

\* the record runBotCycle hands to logInteraction after a successful call
loggedRecord(d, result) ==
  IF d.type = "reply"
  THEN InteractionRecord("reply", result.id, d.targetTweet.authorId)
  ELSE IF d.type = "repost"
  THEN InteractionRecord("repost", d.targetTweet.id, NULL)
  ELSE IF d.type = "quote_tweet"
  THEN InteractionRecord("quote_tweet", result.id, d.targetTweet.authorId)
  ELSE InteractionRecord("original_post", result.id, NULL)

----------------------------------------------------------------------------
(* Text on its way to the platform (xClient.ts sanitizeContent) *)

\* characters of a tweet text: a letter, the blank, two control characters
\* (range u0000-u001F), the no-break space (matched by \s) and the
\* replacement character uFFFD
ControlChars == {"\n", "\t"}
ProblemChars == {"uFFFD"}
WhitespaceChars == {" ", "u00A0"} \cup ControlChars
TextChars == {"a", " ", "\n", "u00A0", "uFFFD"}

\* length of the texts that are followed character by character
MaxTextLen == 3

RawTexts == UNION {[1..n -> TextChars] : n \in 0..MaxTextLen}

\* text.replace(/[set]/g, '')
RECURSIVE removeChars(_, _)
removeChars(text, set) ==
  IF text = <<>> THEN <<>>
  ELSE IF Head(text) \in set THEN removeChars(Tail(text), set)
  ELSE <<Head(text)>> \o removeChars(Tail(text), set)

\* text.replace(/\s+/g, ' ')
RECURSIVE collapseWhitespace(_)
collapseWhitespace(text) ==
  IF text = <<>> THEN <<>>
  ELSE IF Head(text) \in WhitespaceChars
  THEN IF Tail(text) # <<>> /\ Head(Tail(text)) \in WhitespaceChars
       THEN collapseWhitespace(Tail(text))
       ELSE <<" ">> \o collapseWhitespace(Tail(text))
  ELSE <<Head(text)>> \o collapseWhitespace(Tail(text))

\* text.trim()
RECURSIVE trim(_)
trim(text) ==
  IF text = <<>> THEN <<>>
  ELSE IF Head(text) \in WhitespaceChars THEN trim(Tail(text))
  ELSE IF text[Len(text)] \in WhitespaceChars THEN trim(SubSeq(text, 1, Len(text) - 1))
  ELSE text

sanitizeContent(text) ==
  trim(collapseWhitespace(removeChars(removeChars(text, ControlChars), ProblemChars)))

\* the text the platform client receives from op: xClient.tweet(sanitizedText)
\* in postTweet and quoteTweet, xClient.reply(text, tweetId) in replyToTweet
submittedText(op, text) ==
  IF op = "replyToTweet" THEN text ELSE sanitizeContent(text)

----------------------------------------------------------------------------

(* External calls and their retry wrappers (xClient.ts handleApiRequest,  *)
(* openaiClient.ts generateContent)                                        *)

\* the state-mutating operations of the Publisher, and the generator
MutatingOps == {"postTweet", "replyToTweet", "retweet", "quoteTweet"}
Ops == MutatingOps \cup {"generateContent"}

\* the snapshots of handleApiRequest: a plain try/catch, and p-retry
Clients == {"plain", "retrying"}

\* retries: 3 of handleApiRequest, retries: 2 of generateContent
PlatformRetries == 3
GenerationRetries == 2

\* attempts one call is followed for
MaxAttempts == 5

\* a rejected attempt as shouldRetry sees it: http is the numeric status
\* (error.code of the platform client, error.response.status of the
\* generator; 0 when that is not a number), net the string in error.code
ApiError(http, net) == [http |-> http, net |-> net]

Errors ==
  {ApiError(h, n) : h \in {0, 400, 429, 500, 599, 600},
                    n \in {"none", "ENOTFOUND", "ETIMEDOUT", "ECONNRESET"}}

\* errorCode === 429 || (errorCode >= 500 && errorCode < 600)
isRetryableStatus(statusCode) ==
  statusCode = 429 \/ (statusCode >= 500 /\ statusCode < 600)

\* variant: every rejected attempt is retried
shouldRetryAlways(op, client, error) == TRUE

\* shouldRetry of the wrapper that serves op; the plain try/catch of the
\* current handleApiRequest never retries
shouldRetry(op, client, error) ==
  IF op = "generateContent"
  THEN IF error.http # 0 THEN isRetryableStatus(error.http)
       ELSE error.net \in {"ENOTFOUND", "ETIMEDOUT"}
  ELSE IF client = "retrying"
  THEN IF error.http # 0 THEN isRetryableStatus(error.http) ELSE FALSE
  ELSE FALSE

RECURSIVE pow(_, _)
\* Math.pow on natural numbers
pow(base, exponent) == IF exponent = 0 THEN 1 ELSE base * pow(base, exponent - 1)

\* the timing options handed to p-retry (milliseconds): handleApiRequest
\* gives a cap, generateContent leaves maxTimeout at its default, Infinity
platformOptions == [factor |-> 2, minTimeout |-> 1000 * 5, maxTimeout |-> 1000 * 60 * 5]
generationOptions == [factor |-> 2, minTimeout |-> 1000 * 2, maxTimeout |-> Infinity]

\* variant: the delay is not capped
createTimeoutUncapped(attempt, opts) == opts.minTimeout * pow(opts.factor, attempt)

\* the delay p-retry waits before retry number attempt (0 for the first):
\* Math.min(minTimeout * Math.pow(factor, attempt), maxTimeout)
createTimeout(attempt, opts) ==
  LET timeout == opts.minTimeout * pow(opts.factor, attempt)
  IN IF timeout < opts.maxTimeout THEN timeout ELSE opts.maxTimeout

\* the retries option of the wrapper that serves op
retriesOf(op, client) ==
  IF op = "generateContent" THEN GenerationRetries
  ELSE IF client = "retrying" THEN PlatformRetries
  ELSE 0

\* variant: the wrapper never runs out of retries
retriesLeftForever(op, client, attemptNumber) == TRUE

\* p-retry: error.retriesLeft > 0 after attempt attemptNumber was rejected
retriesLeft(op, client, attemptNumber) == attemptNumber <= retriesOf(op, client)

\* variant: retweet goes to the platform whatever the mode
shortCircuitsExceptRetweet(op) == simulateMode /\ op # "retweet"

\* if (config.simulateMode) return ...: op returns before its wrapper
shortCircuits(op) == simulateMode

\* the call in flight: attempts made by the wrapper, how many were
\* rejected, the error of the last rejected one, what the caller got
InFlight(op, client, tweetId, state, attempts, failed, lastError, ok) ==
  [op |-> op, client |-> client, tweetId |-> tweetId, state |-> state,
   attempts |-> attempts, failed |-> failed, lastError |-> lastError, ok |-> ok]

NoCall == InFlight("none", "plain", NULL, "idle", 0, 0, ApiError(0, "none"), FALSE)

\* no helper function has been applied
NoApplication == [fn |-> "none"]

----------------------------------------------------------------------------

(* The bot cycle (bot.ts, runBotCycle) *)

NoDecision == [type |-> "none"]
NoResult == Returned("none", NULL, FALSE)

hasTarget(d) == "targetTweet" \in DOMAIN d

TextBearing == {"reply", "quote_tweet", "original_post"}
Targeted == {"reply", "repost", "quote_tweet"}

\* the switch of runBotCycle goes on to an external call
goesOn(d) ==
  /\ d.type \in TextBearing \cup {"repost"}
  /\ (d.type \in Targeted => hasTarget(d))

\* chooseNextAction has returned: its locals are gone, the decision stays
selectorLocalsDropped ==
  /\ candidates' = <<>>
  /\ searchCalls' = 0
  /\ searchFailed' = FALSE
  /\ dbErr' = {}
  /\ possibleActions' = <<>>

\* clock advances between cycles: a manual rerun, the next cron slot
Steps == {10, 8 * MinutesPerHour}

Tick ==
  /\ pc = "idle"
  /\ ticks < MaxTicks
  /\ \E d \in Steps : now' = now + d
  /\ ticks' = ticks + 1
  /\ UNCHANGED <<build, simulateMode, env, cycles, log, pc, bypass, candidates,
                 searchCalls, searchFailed, dbErr, possibleActions, decision, content, publishCalls,
                 publishResult, appends, children, triggers, inFlight, applied>>

\* const decision = await chooseNextAction(bypass)
ChooseNextAction ==
  /\ pc = "idle"
  /\ cycles < MaxCycles
  /\ \E b \in (IF build = "prisma" THEN {FALSE} ELSE BOOLEAN),
        api \in ApiResponses,
        failing \in DbErrors,
        random \in (IF build = "pool" THEN 0..(RandomSteps - 1) ELSE {0}) :
       LET r == chooseNextAction(b, api, failing, random)
       IN /\ bypass' = b
          /\ dbErr' = failing
          /\ decision' = r.decision
          /\ possibleActions' = r.possibleActions
          /\ searchCalls' = r.searchCalls
          /\ searchFailed' = (r.searchCalls > 0 /\ ~simulateMode /\ ~api.ok)
          /\ candidates' = r.candidates
  /\ cycles' = cycles + 1
  /\ pc' = "decided"
  /\ UNCHANGED <<build, simulateMode, env, now, ticks, log, content, publishCalls,
                 publishResult, appends, children, triggers, inFlight, applied>>

\* case 'ignore', the default case, and a targeted decision without target
NoAction ==
  /\ pc = "decided"
  /\ ~goesOn(decision)
  /\ pc' = "finished"
  /\ selectorLocalsDropped
  /\ UNCHANGED <<build, simulateMode, env, now, ticks, cycles, log, bypass, decision,
                 content, publishCalls, publishResult, appends, children, triggers, inFlight, applied>>

\* variant: after generateContent the switch is entered again
afterGenerationRepeated(text) == "decided"

\* variant: the text goes to the Publisher whatever generateContent returned
afterGenerationUnchecked(text) == "generated"

\* if (!replyContent) break: without text the switch is left at once
afterGeneration(text) == IF text = NULL THEN "finished" ELSE "generated"

\* await generateContent(prompt); a null result ends the cycle
GenerateContent ==
  /\ pc = "decided"
  /\ goesOn(decision)
  /\ decision.type \in TextBearing
  /\ \E llmOk \in BOOLEAN :
       /\ content' = generateContent(llmOk)
       /\ pc' = afterGeneration(content')
  /\ selectorLocalsDropped
  /\ UNCHANGED <<build, simulateMode, env, now, ticks, cycles, log, bypass, decision,
                 publishCalls, publishResult, appends, children, triggers, inFlight, applied>>

\* await replyToTweet / retweet / quoteTweet / postTweet
Publish ==
  /\ \/ pc = "generated"
     \/ pc = "decided" /\ goesOn(decision) /\ decision.type = "repost"
  /\ \E platformOk \in BOOLEAN :
       publishResult' =
         IF decision.type = "reply"
         THEN replyToTweet(content, decision.targetTweet.id, platformOk)
         ELSE IF decision.type = "repost"
         THEN retweet(decision.targetTweet.id, platformOk)
         ELSE IF decision.type = "quote_tweet"
         THEN quoteTweet(content, decision.targetTweet.id, platformOk)
         ELSE postTweet(content, platformOk)
  /\ publishCalls' = publishCalls + 1
  /\ pc' = "published"
  /\ selectorLocalsDropped
  /\ UNCHANGED <<build, simulateMode, env, now, ticks, cycles, log, bypass, decision,
                 content, appends, children, triggers, inFlight, applied>>

\* await logInteraction(type, targetId, authorId) after a successful call
LogInteraction ==
  /\ pc = "published"
  /\ publishResult.ok
  /\ log' = Append(log, loggedRecord(decision, publishResult))
  /\ appends' = appends + 1
  /\ pc' = "finished"
  /\ UNCHANGED <<build, simulateMode, env, now, ticks, cycles, bypass, candidates,
                 searchCalls, searchFailed, dbErr, possibleActions, decision, content, publishCalls,
                 publishResult, children, triggers, inFlight, applied>>

\* the call was not successful: a warning, no interaction log
SkipInteractionLog ==
  /\ pc = "published"
  /\ ~publishResult.ok
  /\ pc' = "finished"
  /\ UNCHANGED <<build, simulateMode, env, now, ticks, cycles, log, bypass,
                 candidates, searchCalls, searchFailed, dbErr, possibleActions, decision, content,
                 publishCalls, publishResult, appends, children, triggers, inFlight, applied>>

\* variant: the rejection leaves runBotCycle
thrownInUncaught(stage) == "rejected"

\* try { ... } catch (error): whatever an awaited call throws lands in the
\* catch block of runBotCycle
thrownIn(stage) == "caught"

\* chooseNextAction rejects: searchRecentTweets maps a response whose
\* tweets lack an author (tweet.author.id)
SelectorThrows ==
  /\ pc = "idle"
  /\ cycles < MaxCycles
  /\ ~simulateMode
  /\ cycles' = cycles + 1
  /\ pc' = thrownIn("chooseNextAction")
  /\ UNCHANGED <<build, simulateMode, env, now, ticks, log, bypass, candidates,
                 searchCalls, searchFailed, dbErr, possibleActions, decision, content,
                 publishCalls, publishResult, appends, children, triggers, inFlight, applied>>

\* generateContent rejects before its own try block: import('p-retry')
GeneratorThrows ==
  /\ pc = "decided"
  /\ goesOn(decision)
  /\ decision.type \in TextBearing
  /\ ~simulateMode
  /\ pc' = thrownIn("generateContent")
  /\ selectorLocalsDropped
  /\ UNCHANGED <<build, simulateMode, env, now, ticks, cycles, log, bypass, decision,
                 content, publishCalls, publishResult, appends, children, triggers, inFlight, applied>>

\* the Publisher rejects after its wrapper returned: result.data.id on a
\* response without data
PublisherThrows ==
  /\ \/ pc = "generated"
     \/ pc = "decided" /\ goesOn(decision) /\ decision.type = "repost"
  /\ ~simulateMode
  /\ publishCalls' = publishCalls + 1
  /\ pc' = thrownIn("publish")
  /\ selectorLocalsDropped
  /\ UNCHANGED <<build, simulateMode, env, now, ticks, cycles, log, bypass, decision,
                 content, publishResult, appends, children, triggers, inFlight, applied>>

\* logger.error({ error }, 'Error during bot cycle')
CatchError ==
  /\ pc = "caught"
  /\ pc' = "finished"
  /\ UNCHANGED <<build, simulateMode, env, now, ticks, cycles, log, bypass, candidates,
                 searchCalls, searchFailed, dbErr, possibleActions, decision, content,
                 publishCalls, publishResult, appends, children, triggers, inFlight, applied>>

\* 'Bot cycle finished.': nothing of the cycle survives but the log
Finish ==
  /\ pc = "finished"
  /\ pc' = "idle"
  /\ bypass' = FALSE
  /\ candidates' = <<>>
  /\ searchCalls' = 0
  /\ searchFailed' = FALSE
  /\ dbErr' = {}
  /\ possibleActions' = <<>>
  /\ decision' = NoDecision
  /\ content' = NULL
  /\ publishCalls' = 0
  /\ publishResult' = NoResult
  /\ appends' = 0
  /\ UNCHANGED <<build, simulateMode, env, now, ticks, cycles, log, children, triggers, inFlight, applied>>

----------------------------------------------------------------------------
(* Initial states *)

Builds == {"pool", "seq", "prisma"}

\* the first day of the model leaves room for a week of history
Day0 == 8 * MinutesPerDay

\* 08:05 (morning window) and 12:05 (no window); eight hours later the
\* afternoon and the evening window
StartTimes == {Day0 + h * MinutesPerHour + 5 : h \in {8, 12}}

\* a day of heavy posting behind the bot: one interaction short of the
\* 24-hour ceiling, all of them ten hours old
BusyLog(t) ==
  [i \in 1..(TWITTER_POST_REPLY_LIMIT_24H - 1) |->
     [type |-> "original_post", targetId |-> "p0", authorId |-> NULL,
      createdAt |-> t - 10 * MinutesPerHour]]

Init ==
  /\ build \in Builds
  /\ simulateMode \in BOOLEAN
  /\ env \in Envs
  /\ now \in StartTimes
  /\ ticks = 0
  /\ cycles = 0
  /\ log \in {<<>>, BusyLog(now)}
  /\ pc = "idle"
  /\ bypass = FALSE
  /\ candidates = <<>>
  /\ searchCalls = 0
  /\ searchFailed = FALSE
  /\ dbErr = {}
  /\ possibleActions = <<>>
  /\ decision = NoDecision
  /\ content = NULL
  /\ publishCalls = 0
  /\ publishResult = NoResult
  /\ appends = 0
  /\ children = <<>>
  /\ triggers = 0
  /\ inFlight = NoCall
  /\ applied = NoApplication

Next ==
  \/ Tick
  \/ ChooseNextAction
  \/ NoAction
  \/ GenerateContent
  \/ Publish
  \/ LogInteraction
  \/ SkipInteractionLog
  \/ SelectorThrows
  \/ GeneratorThrows
  \/ PublisherThrows
  \/ CatchError
  \/ Finish

Spec == Init /\ [][Next]_vars

\* the event loop runs every continuation that is ready: a caught error is
\* logged and the cycle's last statement is reached
SpecFair == Spec /\ WF_vars(CatchError) /\ WF_vars(Finish)

----------------------------------------------------------------------------
(* Triggers: the cron scheduler (scheduler.ts) and the HTTP handler
   (api/run-bot.ts).  Both start the bot with child_process.exec, which
   returns at once; each child process runs runBotCycle on its own. *)

\* where a child process stands in its runBotCycle
ChildPhases == <<"chooseNextAction", "generateContent", "publish", "logInteraction", "exited">>

phaseIndex(ph) == CHOOSE k \in 1..Len(ChildPhases) : ChildPhases[k] = ph

\* exec(command, callback): a new child process, nothing is awaited
runBotScript(via) ==
  Append(children, [via |-> via, phase |-> ChildPhases[1], reported |-> FALSE])

running == {i \in 1..Len(children) : children[i].phase # "exited"}

\* cron.schedule('5 */8 * * *', () => runBotScript())
CronSlot ==
  /\ triggers < MaxTriggers
  /\ Len(children) < MaxChildren
  /\ triggers' = triggers + 1
  /\ children' = runBotScript("cron")
  /\ UNCHANGED cycleVars

\* handler(request, response): 401 when the secret does not match
Handler ==
  /\ triggers < MaxTriggers
  /\ Len(children) < MaxChildren
  /\ triggers' = triggers + 1
  /\ \E authorized \in BOOLEAN :
       children' = IF authorized THEN runBotScript("vercel") ELSE children
  /\ UNCHANGED cycleVars

\* a child process reaches its next await, or ends its cycle early
ChildStep ==
  /\ \E i \in running :
       \E k \in (phaseIndex(children[i].phase) + 1)..Len(ChildPhases) :
         /\ k \in {phaseIndex(children[i].phase) + 1, Len(ChildPhases)}
         /\ children' = [children EXCEPT ![i].phase = ChildPhases[k]]
  /\ UNCHANGED <<cycleVars, triggers>>

\* the exec callback: 'Bot script finished.' / the 200 response
ExecCallback ==
  /\ \E i \in 1..Len(children) :
       /\ children[i].phase = "exited"
       /\ ~children[i].reported
       /\ children' = [children EXCEPT ![i].reported = TRUE]
  /\ UNCHANGED <<cycleVars, triggers>>

SchedInit ==
  /\ build = "pool"
  /\ simulateMode = FALSE
  /\ env = EnvUnset
  /\ now = Day0 + 5
  /\ ticks = 0
  /\ cycles = 0
  /\ log = <<>>
  /\ pc = "idle"
  /\ bypass = FALSE
  /\ candidates = <<>>
  /\ searchCalls = 0
  /\ searchFailed = FALSE
  /\ dbErr = {}
  /\ possibleActions = <<>>
  /\ decision = NoDecision
  /\ content = NULL
  /\ publishCalls = 0
  /\ publishResult = NoResult
  /\ appends = 0
  /\ children = <<>>
  /\ triggers = 0
  /\ inFlight = NoCall
  /\ applied = NoApplication

SchedNext ==
  \/ CronSlot
  \/ Handler
  \/ ChildStep
  \/ ExecCallback

SpecSched == SchedInit /\ [][SchedNext]_vars

----------------------------------------------------------------------------
(* The selector on its own: one call of chooseNextAction at any hour of
   the day, on an empty interaction log or right after a burst of reposts *)

Hours == 0..23

\* as many reposts as the 15-minute ceiling allows, all ten minutes old, of
\* tweets the search does not return
RepostBurst(t) ==
  [i \in 1..TWITTER_REPOST_LIMIT_15M |->
     [type |-> "repost", targetId |-> "r0", authorId |-> NULL, createdAt |-> t - 10]]

\* as many original posts as the morning window allows, all ten minutes
\* old; in the snapshot that knows quote tweets the last one is a quote
OriginalBurst(t) ==
  [i \in 1..cadence[1].original |->
     [type |-> IF build = "pool" /\ i = cadence[1].original
               THEN "quote_tweet" ELSE "original_post",
      targetId |-> "p0", authorId |-> NULL, createdAt |-> t - 10]]

SelectInit ==
  /\ build \in Builds
  /\ simulateMode \in BOOLEAN
  /\ env \in Envs
  /\ now \in {Day0 + h * MinutesPerHour + 5 : h \in Hours}
  /\ ticks = 0
  /\ cycles = 0
  /\ log \in {<<>>, RepostBurst(now), OriginalBurst(now)}
  /\ pc = "idle"
  /\ bypass = FALSE
  /\ candidates = <<>>
  /\ searchCalls = 0
  /\ searchFailed = FALSE
  /\ dbErr = {}
  /\ possibleActions = <<>>
  /\ decision = NoDecision
  /\ content = NULL
  /\ publishCalls = 0
  /\ publishResult = NoResult
  /\ appends = 0
  /\ children = <<>>
  /\ triggers = 0
  /\ inFlight = NoCall
  /\ applied = NoApplication

SelectNext == ChooseNextAction /\ cycles = 0

SpecSelect == SelectInit /\ [][SelectNext]_vars

----------------------------------------------------------------------------
(* One external call on its own: the operation, its simulate check and the
   attempts of its wrapper *)

\* the value op hands back to runBotCycle
Delivered(op, tweetId, ok) ==
  IF op = "generateContent"
  THEN /\ content' = generateContent(ok)
       /\ UNCHANGED publishResult
  ELSE /\ publishResult' =
            CASE op = "postTweet" -> postTweet(GeneratedText, ok)
              [] op = "replyToTweet" -> replyToTweet(GeneratedText, tweetId, ok)
              [] op = "retweet" -> retweet(tweetId, ok)
              [] op = "quoteTweet" -> quoteTweet(GeneratedText, tweetId, ok)
       /\ UNCHANGED content

callLocals == <<build, simulateMode, env, now, ticks, cycles, log, pc, bypass,
                candidates, searchCalls, searchFailed, dbErr, possibleActions,
                decision, publishCalls, appends, children, triggers, applied>>

\* the operation is entered: the simulate check, for retweet the lookup of
\* the bot's own user id (twitterClientV2.me()), then the wrapper
Invoke ==
  /\ inFlight.state = "idle"
  /\ \E op \in Ops, client \in Clients, tweetId \in TweetIds, meOk \in BOOLEAN :
       LET id == IF op \in {"postTweet", "generateContent"} THEN NULL ELSE tweetId
           c == IF op = "generateContent" THEN "retrying" ELSE client
           entered == InFlight(op, c, id, "running", 0, 0, NoCall.lastError, FALSE)
       IN IF shortCircuits(op)
          THEN /\ inFlight' = [entered EXCEPT !.state = "returned", !.ok = TRUE]
               /\ Delivered(op, id, TRUE)
          ELSE IF op = "retweet" /\ ~meOk
          THEN /\ inFlight' = [entered EXCEPT !.state = "returned"]
               /\ Delivered(op, id, FALSE)
          ELSE /\ inFlight' = entered
               /\ UNCHANGED <<content, publishResult>>
  /\ UNCHANGED callLocals

\* one run of requestFn under the wrapper: it resolves (for the generator,
\* possibly with text the harmful-content screen rejects), or it is rejected
\* and shouldRetry and the retries left decide what follows
Attempt ==
  /\ inFlight.state = "running"
  /\ inFlight.attempts < MaxAttempts
  /\ \E resolved \in BOOLEAN, harmful \in BOOLEAN, error \in Errors :
       LET op == inFlight.op
           n == inFlight.attempts + 1
           screened == op = "generateContent" /\ harmful
           rejected == [inFlight EXCEPT !.attempts = n, !.failed = @ + 1,
                                        !.lastError = error]
       IN IF resolved
          THEN /\ inFlight' = [inFlight EXCEPT !.attempts = n, !.state = "returned",
                                               !.ok = ~screened]
               /\ Delivered(op, inFlight.tweetId, ~screened)
          ELSE IF shouldRetry(op, inFlight.client, error) /\ retriesLeft(op, inFlight.client, n)
          THEN /\ inFlight' = [rejected EXCEPT !.state = "backoff"]
               /\ UNCHANGED <<content, publishResult>>
          ELSE /\ inFlight' = [rejected EXCEPT !.state = "returned"]
               /\ Delivered(op, inFlight.tweetId, FALSE)
  /\ UNCHANGED callLocals

\* the backoff timer of p-retry fires
Backoff ==
  /\ inFlight.state = "backoff"
  /\ inFlight' = [inFlight EXCEPT !.state = "running"]
  /\ UNCHANGED <<callLocals, content, publishResult>>

\* the caller has taken the value; the next call can be entered
Settle ==
  /\ inFlight.state = "returned"
  /\ inFlight' = NoCall
  /\ UNCHANGED <<callLocals, content, publishResult>>

CallsInit ==
  /\ build = "pool"
  /\ simulateMode \in BOOLEAN
  /\ env = EnvUnset
  /\ now \in StartTimes
  /\ ticks = 0
  /\ cycles = 0
  /\ log = <<>>
  /\ pc = "idle"
  /\ bypass = FALSE
  /\ candidates = <<>>
  /\ searchCalls = 0
  /\ searchFailed = FALSE
  /\ dbErr = {}
  /\ possibleActions = <<>>
  /\ decision = NoDecision
  /\ content = NULL
  /\ publishCalls = 0
  /\ publishResult = NoResult
  /\ appends = 0
  /\ children = <<>>
  /\ triggers = 0
  /\ inFlight = NoCall
  /\ applied = NoApplication

CallsNext == Invoke \/ Attempt \/ Backoff \/ Settle

SpecCalls == CallsInit /\ [][CallsNext]_vars

\* a pending request settles and a pending timer fires
SpecCallsFair == SpecCalls /\ WF_vars(Attempt) /\ WF_vars(Backoff)

(* Helper functions applied on their own to arguments of every shape *)

Applied(fn, args, result) == [fn |-> fn, args |-> args, result |-> result]

\* everything but the application itself
pureFrame == <<build, simulateMode, env, now, ticks, cycles, log, pc, bypass,
               candidates, searchCalls, searchFailed, dbErr, possibleActions, decision,
               content, publishCalls, publishResult, appends, children, triggers, inFlight>>

TextOps == {"postTweet", "replyToTweet", "quoteTweet"}

\* postTweet, replyToTweet or quoteTweet outside simulate mode, up to the
\* request handed to the wrapper
SubmitText ==
  /\ applied = NoApplication
  /\ ~simulateMode
  /\ \E op \in TextOps, text \in RawTexts :
       applied' = Applied(op, text, submittedText(op, text))
  /\ UNCHANGED pureFrame

PureInit ==
  /\ build = "pool"
  /\ simulateMode = FALSE
  /\ env \in Envs
  /\ now \in StartTimes
  /\ ticks = 0
  /\ cycles = 0
  /\ log = <<>>
  /\ pc = "idle"
  /\ bypass = FALSE
  /\ candidates = <<>>
  /\ searchCalls = 0
  /\ searchFailed = FALSE
  /\ dbErr = {}
  /\ possibleActions = <<>>
  /\ decision = NoDecision
  /\ content = NULL
  /\ publishCalls = 0
  /\ publishResult = NoResult
  /\ appends = 0
  /\ children = <<>>
  /\ triggers = 0
  /\ inFlight = NoCall
  /\ applied = NoApplication

\* config.cadence as declared, and with the afternoon window opened at 10,
\* two hours into the morning window
overlappingCadence == [cadence EXCEPT ![2].startHour = 10]

\* getCurrentCadenceWindow(hour) over the declared and the overlapping windows
ApplyWindow ==
  /\ applied = NoApplication
  /\ \E windows \in {cadence, overlappingCadence}, hour \in Hours :
       applied' = Applied("getCurrentCadenceWindow", [windows |-> windows, hour |-> hour],
                          windowAt(windows, hour))
  /\ UNCHANGED pureFrame

\* characters and length of the short texts tried against the keywords:
\* enough to spell "L2" and "iOS" in every casing
KeywordChars == {"l", "L", "2", "i", "I", "o", "O", "s", "S", " "}
MaxKeywordTextLen == 3

KeywordTexts ==
  UNION {[1..n -> KeywordChars] : n \in 0..MaxKeywordTextLen} \cup {t.text : t \in Timeline}

\* isTweetRelevant(text)
ApplyRelevant ==
  /\ applied = NoApplication
  /\ \E text \in KeywordTexts :
       applied' = Applied("isTweetRelevant", text, isTweetRelevant(text))
  /\ UNCHANGED pureFrame

\* most likes a scored candidate has
MaxLikes == 2

\* candidates of every shape: no, one or a hundred followers, created a
\* minute in the future, now, or one or two minutes ago
ScoredTweets ==
  {Tweet("t0", <<"a">>, "a0", followers, likes, retweets, age) :
     followers \in {0, 1, 100}, likes \in 0..MaxLikes, retweets \in 0..1, age \in -1..2}

\* calculateEngagementScore on a candidate and on its copy with another
\* number of likes
ApplyScore ==
  /\ applied = NoApplication
  /\ \E tweet \in ScoredTweets, likes \in 0..MaxLikes :
       LET other == [tweet EXCEPT !.likeCount = likes]
       IN applied' = Applied("calculateEngagementScore", <<tweet, other>>,
                             <<calculateEngagementScore(tweet), calculateEngagementScore(other)>>)
  /\ UNCHANGED pureFrame

\* highest retry index the delay is computed for
MaxRetryIndex == 7

\* createTimeout for a retry and for the one after it
ApplyTimeout ==
  /\ applied = NoApplication
  /\ \E opts \in {platformOptions, generationOptions}, attempt \in 0..MaxRetryIndex :
       applied' = Applied("createTimeout", <<attempt, opts>>,
                          <<createTimeout(attempt, opts), createTimeout(attempt + 1, opts)>>)
  /\ UNCHANGED pureFrame

PureNext ==
  \/ SubmitText
  \/ ApplyWindow
  \/ ApplyRelevant
  \/ ApplyScore
  \/ ApplyTimeout

SpecPure == PureInit /\ [][PureNext]_vars

----------------------------------------------------------------------------

(* Properties *)

\* records of the log that a query of the given types since a date counts
loggedSince(types, sinceDate) ==
  {i \in 1..Len(log) : log[i].type \in types /\ log[i].createdAt >= sinceDate}

\* C1: if the log holds at least 100 original_post or reply records of the
\* last 24 hours (and bypass is off), chooseNextAction returns 'ignore' and
\* searchRecentTweets is not called in that cycle.
C1_CeilingIgnoresWithoutSearch ==
  (/\ pc = "decided"
   /\ ~bypass
   /\ Cardinality(loggedSince({"original_post", "reply"}, now - MinutesPerDay))
        >= TWITTER_POST_REPLY_LIMIT_24H)
  => (decision.type = "ignore" /\ searchCalls = 0)

\* the cutoff of the reply cooldown in the current cycle
replyCutoff == now - HOURS_SINCE_LAST_REPLY_AUTHOR * MinutesPerHour

\* C2: if the check "replied to this author within the cooldown" throws for
\* an author, the decision of that cycle is not a reply to a tweet of that
\* author.
C2_CooldownErrorBlocksReply ==
  (pc = "decided" /\ decision.type = "reply")
  => Query("findReply", {decision.targetTweet.authorId}, replyCutoff) \notin dbErr

\* C2 happens: inside a window with a reply budget the search returned a
\* relevant tweet above the engagement threshold, the cooldown check for its
\* author threw, and the decision is not a reply.
C2_Witness ==
  /\ pc = "decided"
  /\ build = "prisma"
  /\ ~isNull(getCurrentCadenceWindow(getHours(now)))
  /\ budgetOf(getCurrentCadenceWindow(getHours(now)), "replies") > 0
  /\ \E i \in 1..Len(candidates) :
       /\ isTweetRelevant(candidates[i].text)
       /\ ScoreAbove(calculateEngagementScore(candidates[i]), ENGAGEMENT_THRESHOLD)
       /\ dbErr = {Query("findReply", {candidates[i].authorId}, replyCutoff)}
  /\ decision.type # "reply"

\* C3: a count query that throws is read as a count above every limit: a
\* failing 24-hour count ends the cycle with 'ignore' before the search, a
\* failing reply / repost / original count keeps that action from being
\* chosen, and no repost is chosen whose duplicate check threw.
C3_CountErrorFailsClosed ==
  pc = "decided" =>
    LET w == getCurrentCadenceWindow(getHours(now))
        failed(types, since) == Query("count", types, since) \in dbErr
    IN /\ failed({"original_post", "reply"}, now - MinutesPerDay)
            => (decision.type = "ignore" /\ searchCalls = 0)
       /\ failed({"repost"}, now - 15) => decision.type # "repost"
       /\ ~isNull(w) =>
            /\ failed({"reply"}, windowStart(w)) => decision.type # "reply"
            /\ failed({"repost"}, windowStart(w)) => decision.type # "repost"
            /\ failed({"original_post"}, windowStart(w)) => decision.type # "original_post"
       /\ decision.type = "repost" =>
            Query("findRepost", {decision.targetTweet.id}, now - 7 * MinutesPerDay) \notin dbErr

\* C3 happens: the window grants original posts, nothing else is eligible,
\* the count of original posts threw, and the cycle ends with 'ignore'.
C3_Witness ==
  /\ pc = "decided"
  /\ build = "prisma"
  /\ ~isNull(getCurrentCadenceWindow(getHours(now)))
  /\ budgetOf(getCurrentCadenceWindow(getHours(now)), "original") > 0
  /\ dbErr = {Query("count", {"original_post"},
                    windowStart(getCurrentCadenceWindow(getHours(now))))}
  /\ log = <<>>
  /\ searchCalls = 1
  /\ decision.type = "ignore"

\* C4: if the log holds a repost record for tweet T of the last 7 days, the
\* decision is never a repost of T.
C4_NoRepeatedRepost ==
  (pc = "decided" /\ decision.type = "repost")
  => ~ \E i \in loggedSince({"repost"}, now - 7 * MinutesPerDay) :
         log[i].targetId = decision.targetTweet.id

\* C5: if the log holds a reply record for an author inside the cooldown
\* (48 hours), the decision is never a reply to a tweet of that author.
C5_NoReplyInsideCooldown ==
  (pc = "decided" /\ decision.type = "reply")
  => ~ \E i \in loggedSince({"reply"}, replyCutoff) :
         log[i].authorId = decision.targetTweet.authorId

\* the record appended last
lastLogged == log[Len(log)]

C7_CyclesNeverOverlap == Cardinality(running) <= 1

\* C8: the pool snapshot returns 'ignore' when the pool of possible actions
\* is empty, and otherwise one entry of the pool built in that cycle, with
\* its type and its target.
C8_DecisionFromPool ==
  (pc = "decided" /\ build = "pool") =>
    IF Len(possibleActions) = 0
    THEN decision.type = "ignore" /\ ~hasTarget(decision)
    ELSE \E i \in 1..Len(possibleActions) :
           /\ decision.type = possibleActions[i].type
           /\ hasTarget(decision) = hasTarget(possibleActions[i])
           /\ hasTarget(decision) => decision.targetTweet = possibleActions[i].targetTweet

\* C8 happens: the pool held all four possibilities and the draw took the
\* last one.
C8_Witness ==
  /\ pc = "decided"
  /\ build = "pool"
  /\ Len(possibleActions) = 4
  /\ decision.type = possibleActions[4].type
  /\ decision.targetTweet = possibleActions[4].targetTweet

\* C9: a decision carries a target tweet if and only if its type is reply,
\* repost or quote tweet.
C9_TargetIffTargeted ==
  pc # "idle" => (hasTarget(decision) <=> decision.type \in Targeted)

\* C9 happens: an original post was chosen although the search had
\* returned relevant tweets, and it carries no target.
C9_Witness ==
  /\ pc = "decided"
  /\ decision.type = "original_post"
  /\ ~hasTarget(decision)
  /\ \E i \in 1..Len(candidates) : isTweetRelevant(candidates[i].text)

\* C10: if the current window's budgets for replies, reposts and original
\* posts are all zero and bypass is off, chooseNextAction returns 'ignore'
\* and searchRecentTweets is not called in that cycle.
C10_ZeroBudgetsIgnoreWithoutSearch ==
  (/\ pc = "decided"
   /\ ~bypass
   /\ ~isNull(getCurrentCadenceWindow(getHours(now)))
   /\ \A k \in {"replies", "reposts", "original"} :
        budgetOf(getCurrentCadenceWindow(getHours(now)), k) = 0)
  => (decision.type = "ignore" /\ searchCalls = 0)

\* the hours of the day that lie inside a configured window
coveredHours ==
  {h \in Hours : \E i \in 1..Len(cadence) : cadence[i].startHour <= h /\ h < cadence[i].endHour}

\* C11: with bypass off, at every hour of the day that no cadence window
\* covers, chooseNextAction returns 'ignore' and has fetched no candidates.
C11_OutsideWindowsIgnores ==
  (pc = "decided" /\ ~bypass /\ getHours(now) \notin coveredHours)
  => (decision.type = "ignore" /\ searchCalls = 0)

\* C11 happens: 17:05, the hour at which the afternoon window has just
\* ended, in the current build: 'ignore' without a search.
C11_Witness ==
  /\ pc = "decided"
  /\ build = "pool"
  /\ ~bypass
  /\ getHours(now) = 17
  /\ getHours(now) \notin coveredHours
  /\ decision.type = "ignore"
  /\ searchCalls = 0

\* the current window, and what the log says about its budgets
currentWindowNow == getCurrentCadenceWindow(getHours(now))

\* nothing stands in the way of the gates: bypass off, inside a window, no
\* query threw, and the 24-hour ceiling is not reached
gatesOpen ==
  /\ pc = "decided"
  /\ ~bypass
  /\ ~isNull(currentWindowNow)
  /\ dbErr = {}
  /\ Cardinality(loggedSince({"original_post", "reply"}, now - MinutesPerDay))
       < TWITTER_POST_REPLY_LIMIT_24H

\* the reply budget of the window is positive and not used up
replyBudgetLeft ==
  Cardinality(loggedSince({"reply"}, now - MinutesPerDay)) < budgetOf(currentWindowNow, "replies")

\* tweet t qualifies for a reply
replyTarget(t) ==
  /\ isTweetRelevant(t.text)
  /\ ScoreAbove(calculateEngagementScore(t), ENGAGEMENT_THRESHOLD)
  /\ ~ \E i \in loggedSince({"reply"}, replyCutoff) : log[i].authorId = t.authorId

\* the case of C12: one candidate, which qualifies for a reply
singleReplyCandidate ==
  /\ gatesOpen
  /\ replyBudgetLeft
  /\ Len(candidates) = 1
  /\ replyTarget(candidates[1])

onlyIrrelevantCandidate ==
  /\ pc = "decided"
  /\ ~bypass
  /\ Len(candidates) = 1
  /\ ~isTweetRelevant(candidates[1].text)
  /\ (isNull(currentWindowNow) \/ budgetOf(currentWindowNow, "original") = 0)

relevantByScore ==
  sortByScoreDesc(filter(candidates, {t \in elements(candidates) : isTweetRelevant(t.text)}))

\* the case of C14: no reply can be offered (no reply budget in the window,
\* or no relevant candidate above the threshold), the best relevant
\* candidate has no repost record of the last 7 days, and the repost budget
\* of the window is not used up
repostCase ==
  /\ gatesOpen
  /\ \/ budgetOf(currentWindowNow, "replies") = 0
     \/ \A i \in 1..Len(candidates) :
          ~(/\ isTweetRelevant(candidates[i].text)
            /\ ScoreAbove(calculateEngagementScore(candidates[i]), ENGAGEMENT_THRESHOLD))
  /\ Len(relevantByScore) > 0
  /\ ~ \E i \in loggedSince({"repost"}, now - 7 * MinutesPerDay) :
         log[i].targetId = relevantByScore[1].id
  /\ Cardinality(loggedSince({"repost"}, now - MinutesPerDay))
       < budgetOf(currentWindowNow, "reposts")

onlyOriginalEligible ==
  /\ gatesOpen
  /\ Cardinality(loggedSince({"original_post", "quote_tweet"}, now - MinutesPerDay))
       < budgetOf(currentWindowNow, "original")
  /\ Len(relevantByScore) = 0
  /\ \/ budgetOf(currentWindowNow, "replies") = 0
     \/ \A i \in 1..Len(candidates) :
          ~ScoreAbove(calculateEngagementScore(candidates[i]), ENGAGEMENT_THRESHOLD)

\* C15: in a window with original budget left, with no relevant candidate
\* and no other eligible action, the decision is 'original_post', and the
\* pool of the current snapshot holds original_post and nothing else.
C15_OnlyOriginalPost ==
  onlyOriginalEligible =>
    /\ decision.type = "original_post"
    /\ build = "pool" => possibleActions = <<[type |-> "original_post"]>>

\* C15 happens: the morning window, the search returned one tweet that
\* matches no keyword, and the current snapshot decided on an original post
\* from a pool of one.
C15_Witness ==
  /\ onlyOriginalEligible
  /\ build = "pool"
  /\ Len(candidates) = 1
  /\ Len(possibleActions) = 1
  /\ decision.type = "original_post"

C17_SimulateNeverPublishes ==
  simulateMode =>
    /\ inFlight.attempts = 0
    /\ inFlight.state \in {"idle", "returned"}
    /\ (inFlight.state = "returned" /\ inFlight.op \in MutatingOps) =>
         /\ inFlight.ok
         /\ publishResult.call = inFlight.op
         /\ publishResult.ok
         /\ publishResult.id # NewTweetId

C17_Witness ==
  /\ simulateMode
  /\ inFlight.state = "returned"
  /\ inFlight.op = "retweet"
  /\ publishResult.call = "retweet"
  /\ publishResult.ok

\* the classes the retry policy calls transient: HTTP 429, HTTP 500-599
\* and, for content generation, the network codes ENOTFOUND and ETIMEDOUT
transient(op, error) ==
  \/ error.http = 429
  \/ error.http \in 500..599
  \/ (op = "generateContent" /\ error.net \in {"ENOTFOUND", "ETIMEDOUT"})

\* C18: the wrapper goes on to another attempt only after a transient
\* error; after any other error the call has ended in a failure, and when
\* that error met the first attempt no second attempt was made
C18_RetryOnlyTransient ==
  inFlight.failed > 0 =>
    /\ inFlight.state \in {"backoff", "running"} => transient(inFlight.op, inFlight.lastError)
    /\ ~transient(inFlight.op, inFlight.lastError) =>
         /\ inFlight.state = "returned"
         /\ ~inFlight.ok
         /\ inFlight.attempts = inFlight.failed
         /\ (inFlight.op = "generateContent" => content = NULL)
         /\ (inFlight.op \in MutatingOps => ~publishResult.ok)

C18_Witness ==
  /\ inFlight.state = "returned"
  /\ inFlight.op = "replyToTweet"
  /\ inFlight.client = "retrying"
  /\ inFlight.attempts = 1
  /\ inFlight.lastError = ApiError(400, "none")
  /\ ~publishResult.ok

\* maxRetries of the retry policy: 3 for platform calls, 2 for generation
maxRetries(op) == IF op = "generateContent" THEN GenerationRetries ELSE PlatformRetries

\* what a wrapped call leaves behind at any moment: a bounded number of
\* attempts, a success only from the first attempt that resolved, and on
\* failure the null the caller tests for
boundedCall ==
  /\ inFlight.attempts <= maxRetries(inFlight.op) + 1
  /\ inFlight.failed <= inFlight.attempts
  /\ inFlight.state \in {"idle", "running", "backoff", "returned"}
  /\ (inFlight.state = "returned" /\ inFlight.ok) =>
       /\ inFlight.attempts = inFlight.failed + 1 \/ (simulateMode /\ inFlight.attempts = 0)
       /\ (inFlight.op = "generateContent" => content # NULL)
       /\ (inFlight.op \in MutatingOps => publishResult.ok)
  /\ (inFlight.state = "returned" /\ ~inFlight.ok) =>
       /\ (inFlight.op = "generateContent" => content = NULL)
       /\ (inFlight.op \in MutatingOps \ {"retweet"} => publishResult = Returned(inFlight.op, NULL, FALSE))
       /\ (inFlight.op = "retweet" => ~publishResult.ok)

C20_FailedGenerationStops ==
  (pc \in {"generated", "published", "finished"} /\ decision.type \in TextBearing /\ content = NULL)
    => /\ pc = "finished"
       /\ publishCalls = 0
       /\ publishResult = NoResult
       /\ appends = 0

C20_Witness ==
  /\ pc = "finished"
  /\ ~simulateMode
  /\ decision.type = "reply"
  /\ hasTarget(decision)
  /\ content = NULL
  /\ publishCalls = 0
  /\ appends = 0

\* a cycle that is over has left nothing behind but the interaction log
cycleLocalsFresh ==
  /\ ~bypass
  /\ decision = NoDecision
  /\ content = NULL
  /\ publishCalls = 0
  /\ publishResult = NoResult
  /\ appends = 0
  /\ candidates = <<>>

\* C21: an exception thrown by the selector, the generator or the
\* Publisher is caught in runBotCycle: the cycle never rejects, it always
\* runs to its end, and the next cycle starts from fresh locals
C21_CycleCompletes ==
  /\ [](pc \in {"idle", "decided", "generated", "published", "caught", "finished"})
  /\ [](pc = "idle" => cycleLocalsFresh)
  /\ (pc = "caught") ~> (pc = "idle")

C21_Witness ==
  /\ pc = "caught"
  /\ decision.type = "reply"
  /\ publishCalls = 1
  /\ cycles < MaxCycles

\* C22: the text postTweet, replyToTweet or quoteTweet hands to the
\* platform is the sanitized form of the text it was given: no control
\* character, whitespace runs collapsed to one blank, no blank at the ends
C22_SubmittedTextSanitized ==
  applied.fn \in TextOps =>
    /\ applied.result = sanitizeContent(applied.args)
    /\ \A i \in 1..Len(applied.result) :
         /\ applied.result[i] \notin ControlChars
         /\ applied.result[i] \in WhitespaceChars =>
              /\ applied.result[i] = " "
              /\ 1 < i /\ i < Len(applied.result)
              /\ applied.result[i + 1] \notin WhitespaceChars

\* indexes of the windows whose half-open interval holds the hour
windowsHolding(windows, hour) ==
  {i \in 1..Len(windows) : windows[i].startHour <= hour /\ hour < windows[i].endHour}

\* C23: getCurrentCadenceWindow(hour) returns none when no window holds the
\* hour; otherwise the first window in declaration order that holds it,
\* which for the declared windows is the only one
C23_FirstWindowHoldingHour ==
  applied.fn = "getCurrentCadenceWindow" =>
    LET windows == applied.args.windows
        holding == windowsHolding(windows, applied.args.hour)
    IN /\ holding = {} <=> isNull(applied.result)
       /\ holding # {} =>
            \E i \in holding :
              /\ applied.result = windows[i]
              /\ \A j \in holding : i <= j
       /\ windows = cadence => Cardinality(holding) <= 1

C23_Witness ==
  /\ applied.fn = "getCurrentCadenceWindow"
  /\ applied.args.windows = overlappingCadence
  /\ applied.args.hour = 11
  /\ applied.result = overlappingCadence[1]

\* two characters that differ at most in their case
sameIgnoringCase(a, b) ==
  \/ a = b
  \/ (a \in DOMAIN UpperToLower /\ UpperToLower[a] = b)
  \/ (b \in DOMAIN UpperToLower /\ UpperToLower[b] = a)

\* keyword occurs in text as a substring, case ignored
occursIn(text, keyword) ==
  \E start \in 0..(Len(text) - Len(keyword)) :
    \A j \in 1..Len(keyword) : sameIgnoringCase(text[start + j], keyword[j])

\* C24: isTweetRelevant(text) is true exactly when some keyword of some
\* topic occurs in text as a substring, case ignored
C24_RelevantIffKeywordOccurs ==
  applied.fn = "isTweetRelevant" =>
    (applied.result <=>
       \E topic \in 1..Len(topicKeywords) :
         \E k \in 1..Len(topicKeywords[topic]) :
           occursIn(applied.args, topicKeywords[topic][k]))

C24_Witness ==
  /\ applied.fn = "isTweetRelevant"
  /\ applied.args = <<"I", "o", "s">>
  /\ applied.result

\* C25: a candidate created now or in the future scores 0, whatever its
\* followers, likes and retweets
C25_ZeroScoreWithoutAge ==
  applied.fn = "calculateEngagementScore" =>
    \A i \in 1..2 :
      applied.args[i].createdAt >= now =>
        (applied.result[i].num = 0 /\ applied.result[i].den # 0)

C25_Witness ==
  /\ applied.fn = "calculateEngagementScore"
  /\ applied.args[1].createdAt = now
  /\ applied.args[1].authorFollowers = 100
  /\ applied.args[1].likeCount = MaxLikes
  /\ applied.result[1].num = 0

\* C26 as stated: of two candidates of positive age that differ only in
\* their likes, the one with more likes scores strictly higher
C26_MoreLikesScoreHigher ==
  (/\ applied.fn = "calculateEngagementScore"
   /\ applied.args[1].createdAt < now
   /\ applied.args[2].likeCount > applied.args[1].likeCount)
    => ScoreGreater(applied.result[2], applied.result[1])

\* C26, amended: the same for candidates whose author has followers; with
\* no followers both scores are 0
C26_MoreLikesScoreHigherWithFollowers ==
  (/\ applied.fn = "calculateEngagementScore"
   /\ applied.args[1].createdAt < now
   /\ applied.args[2].likeCount > applied.args[1].likeCount)
    => IF applied.args[1].authorFollowers > 0
       THEN ScoreGreater(applied.result[2], applied.result[1])
       ELSE applied.result[1].num = 0 /\ applied.result[2].num = 0

C26_Witness ==
  /\ applied.fn = "calculateEngagementScore"
  /\ applied.args[1].createdAt < now
  /\ applied.args[1].authorFollowers = 1
  /\ applied.args[1].likeCount = 0
  /\ applied.args[2].likeCount = 1
  /\ ScoreGreater(applied.result[2], applied.result[1])

\* C27: inside a cadence window the log never holds more replies, reposts,
\* or original posts plus quote tweets since the start of the window than
\* the window's budget for them
C27_WindowBudgetsRespected ==
  ~isNull(currentWindowNow) =>
    LET since == windowStart(currentWindowNow)
    IN /\ Cardinality(loggedSince({"reply"}, since)) <= budgetOf(currentWindowNow, "replies")
       /\ Cardinality(loggedSince({"repost"}, since)) <= budgetOf(currentWindowNow, "reposts")
       /\ Cardinality(loggedSince({"original_post", "quote_tweet"}, since))
            <= budgetOf(currentWindowNow, "original")

\* C28: the log never holds more than 100 original posts and replies of
\* the last 24 hours
C28_DailyCeilingRespected ==
  Cardinality(loggedSince({"original_post", "reply"}, now - MinutesPerDay))
    <= TWITTER_POST_REPLY_LIMIT_24H

\* C29: the log never holds two replies to the same author less than the
\* cooldown (48 hours) apart, and every reply is logged with its author
C29_RepliesToAuthorCooldownApart ==
  \A i \in 1..Len(log) : \A j \in 1..Len(log) :
    (i < j /\ log[i].type = "reply" /\ log[j].type = "reply") =>
      /\ log[i].authorId # NULL
      /\ log[j].authorId # NULL
      /\ log[i].authorId = log[j].authorId =>
           log[j].createdAt - log[i].createdAt >= HOURS_SINCE_LAST_REPLY_AUTHOR * MinutesPerHour

\* the log holds as many reposts of the last 15 minutes as the ceiling
repostCeilingReached ==
  Cardinality(loggedSince({"repost"}, now - 15)) >= TWITTER_REPOST_LIMIT_15M

\* C30: with the 15-minute repost ceiling reached no repost is offered or
\* decided, and the cycle goes on all the same: with the gates open and an
\* original budget left it searches and does not end in 'ignore'
C30_RepostCeilingOnlyStopsReposts ==
  (pc = "decided" /\ ~bypass /\ repostCeilingReached) =>
    /\ decision.type # "repost"
    /\ \A i \in 1..Len(possibleActions) : possibleActions[i].type # "repost"
    /\ (gatesOpen /\ budgetOf(currentWindowNow, "original") > 0) =>
         (searchCalls = 1 /\ decision.type # "ignore")
\* the entries of the pool with the given action type
typeEntries(type) == {i \in 1..Len(possibleActions) : possibleActions[i].type = type}

\* the case of C31: the pool snapshot has fetched its candidates and the
\* original budget is not used up (under bypass it never is)
originalUnderBudget ==
  /\ pc = "decided"
  /\ build = "pool"
  /\ searchCalls = 1
  /\ \/ bypass
     \/ Cardinality(loggedSince({"original_post", "quote_tweet"}, now - MinutesPerDay))
          < budgetOf(currentWindowNow, "original")

\* C31: when the original budget is not used up, the pool holds an
\* original_post entry whether or not candidates exist, and it holds a
\* quote_tweet entry exactly if some candidate is relevant; the target of
\* the quote is a relevant candidate that no relevant candidate outscores.
C31_OriginalAndQuoteOffered ==
  originalUnderBudget =>
    /\ typeEntries("original_post") # {}
    /\ (typeEntries("quote_tweet") # {}) <=> (Len(relevantByScore) > 0)
    /\ \A i \in typeEntries("quote_tweet") :
         LET target == possibleActions[i].targetTweet
         IN /\ target \in elements(candidates)
            /\ isTweetRelevant(target.text)
            /\ \A c \in elements(candidates) :
                 isTweetRelevant(c.text)
                   => ~ScoreGreater(calculateEngagementScore(c),
                                    calculateEngagementScore(target))

\* C31 happens: two relevant candidates, the weaker one fetched first, and
\* the pool holds the original post together with a quote of the stronger.
C31_Witness ==
  /\ originalUnderBudget
  /\ Len(relevantByScore) = 2
  /\ candidates[1] # relevantByScore[1]
  /\ typeEntries("original_post") # {}
  /\ \E i \in typeEntries("quote_tweet") :
       possibleActions[i].targetTweet = relevantByScore[1]
\* the original budget consumed, as C32 has it: the original posts and
\* quote tweets logged since the start of the current window, since 24
\* hours ago under bypass
originalBudgetConsumed ==
  LET since == IF bypass \/ isNull(currentWindowNow) THEN now - MinutesPerDay
               ELSE windowStart(currentWindowNow)
  IN Cardinality(loggedSince({"original_post", "quote_tweet"}, since))

\* the original budget the snapshot allows
allowedOriginalsNow ==
  IF bypass THEN (IF build = "pool" THEN 1 ELSE 10)
  ELSE budgetOf(currentWindowNow, "original")

\* C32: the original budget consumed is the number of original_post and
\* quote_tweet records logged since the start of the current window (since
\* 24 hours ago under bypass): once the candidates are fetched and no query
\* fails, an original post is eligible (pushed into the pool, or returned by
\* the sequential gates) only if that number is below the allowed budget,
\* and found not eligible (missing in the pool, or the sequential gates ran
\* through to 'ignore') only if it is not.
C32_OriginalBudgetConsumed ==
  LET originalOffered ==
        IF build = "pool" THEN typeEntries("original_post") # {}
        ELSE decision.type = "original_post"
      originalRefused ==
        IF build = "pool" THEN typeEntries("original_post") = {}
        ELSE decision.type = "ignore"
  IN (pc = "decided" /\ searchCalls = 1 /\ dbErr = {}) =>
       /\ originalOffered => originalBudgetConsumed < allowedOriginalsNow
       /\ originalRefused => originalBudgetConsumed >= allowedOriginalsNow

\* the action types a pool entry can have
PoolTypes == {"original_post", "quote_tweet", "repost", "reply"}

\* C33: the pool built in a cycle holds at most one repost and at most one
\* reply possibility, at most one entry of each action type, and at most
\* four entries in all.
C33_PoolOneEntryPerType ==
  /\ \A i \in 1..Len(possibleActions) : possibleActions[i].type \in PoolTypes
  /\ \A type \in PoolTypes : Cardinality(typeEntries(type)) <= 1
  /\ Len(possibleActions) <= 4

\* C33 happens: two relevant candidates, both open to a repost, and the
\* pool holds one entry of each of the four types.
C33_Witness ==
  /\ pc = "decided"
  /\ build = "pool"
  /\ Len(relevantByScore) = 2
  /\ Len(possibleActions) = 4
  /\ \A type \in PoolTypes : Cardinality(typeEntries(type)) = 1
\* C34: when a repost is offered (pushed into the pool, or returned by the
\* sequential gates) and no query failed, its target is a relevant
\* candidate not reposted within the last 7 days, and no other relevant
\* candidate not reposted within the last 7 days scores strictly higher.
C34_RepostTargetsBestEligible ==
  LET repostOffered ==
        IF build = "pool"
        THEN {possibleActions[i].targetTweet : i \in typeEntries("repost")}
        ELSE IF decision.type = "repost" THEN {decision.targetTweet} ELSE {}
      notRepostedRecently(t) ==
        ~ \E i \in loggedSince({"repost"}, now - 7 * MinutesPerDay) : log[i].targetId = t.id
  IN (pc = "decided" /\ dbErr = {}) =>
       \A target \in repostOffered :
         /\ target \in elements(candidates)
         /\ isTweetRelevant(target.text)
         /\ notRepostedRecently(target)
         /\ \A c \in elements(candidates) :
              (isTweetRelevant(c.text) /\ notRepostedRecently(c))
                => ~ScoreGreater(calculateEngagementScore(c),
                                 calculateEngagementScore(target))

\* C35: when a reply is offered (pushed into the pool, or returned by the
\* sequential gates) and no query failed, its target is a fetched
\* candidate, relevant or not, with a score strictly above the threshold
\* and an author not replied to within the cooldown, and no other such
\* candidate scores strictly higher.
C35_ReplyTargetsBestEligible ==
  LET replyOffered ==
        IF build = "pool"
        THEN {possibleActions[i].targetTweet : i \in typeEntries("reply")}
        ELSE IF decision.type = "reply" THEN {decision.targetTweet} ELSE {}
      openToReply(t) ==
        /\ ScoreAbove(calculateEngagementScore(t), ENGAGEMENT_THRESHOLD)
        /\ ~ \E i \in loggedSince({"reply"}, replyCutoff) : log[i].authorId = t.authorId
  IN (pc = "decided" /\ dbErr = {}) =>
       \A target \in replyOffered :
         /\ target \in elements(candidates)
         /\ openToReply(target)
         /\ \A c \in elements(candidates) :
              openToReply(c)
                => ~ScoreGreater(calculateEngagementScore(c),
                                 calculateEngagementScore(target))

\* C36: under bypass, at every hour of the day, the allowed budget of the
\* original post is positive, the candidates are fetched and the decision
\* is never 'ignore'; the pool snapshot offers an original post always, a
\* reply whenever a candidate scores above the threshold and (short of the
\* 15-minute repost ceiling) a repost whenever a candidate is relevant; the
\* sequential snapshot returns an original post when no candidate is
\* relevant.
C36_BypassLiftsCadence ==
  (pc = "decided" /\ bypass) =>
    /\ allowedOriginalsNow > 0
    /\ searchCalls = 1
    /\ decision.type # "ignore"
    /\ build = "pool" =>
         /\ typeEntries("original_post") # {}
         /\ (typeEntries("reply") # {})
              <=> (\E c \in elements(candidates) :
                     ScoreAbove(calculateEngagementScore(c), ENGAGEMENT_THRESHOLD))
         /\ ~repostCeilingReached =>
              ((typeEntries("repost") # {}) <=> (Len(relevantByScore) > 0))
    /\ (build # "pool" /\ Len(relevantByScore) = 0) => decision.type = "original_post"

\* C36 happens: 18:05, an hour that no window covers, after a burst of
\* original posts; under bypass the pool holds all four possibilities.
C36_Witness ==
  /\ pc = "decided"
  /\ bypass
  /\ build = "pool"
  /\ getHours(now) \notin coveredHours
  /\ log = OriginalBurst(now)
  /\ Len(possibleActions) = 4
  /\ decision.type = "reply"
C38_EmptyResponseRetried ==
  (/\ inFlight.op = "generateContent"
   /\ inFlight.state = "returned"
   /\ inFlight.failed > 0
   /\ inFlight.attempts = inFlight.failed
   /\ inFlight.lastError = ApiError(0, "none"))
    => inFlight.attempts = GenerationRetries + 1
\* what a cycle has done at any moment: content only for a reply, a quote
\* tweet or an original post and only past the decision, at most one
\* Publisher call, for a text-bearing action only with the generated text,
\* and at most one append, only after a successful Publisher call
oneCallEach ==
  /\ pc = "idle" => (decision = NoDecision /\ content = NULL /\ publishCalls = 0 /\ appends = 0)
  /\ pc = "decided" => (content = NULL /\ publishCalls = 0 /\ appends = 0)
  /\ content # NULL =>
       /\ decision.type \in {"reply", "quote_tweet", "original_post"}
       /\ pc \in {"generated", "published", "caught", "finished"}
  /\ decision.type \in {"repost", "ignore"} => content = NULL
  /\ pc = "generated" => (content # NULL /\ publishCalls = 0 /\ appends = 0)
  /\ publishCalls <= 1
  /\ publishCalls = 1 =>
       /\ pc \in {"published", "caught", "finished"}
       /\ decision.type \in {"reply", "quote_tweet", "original_post", "repost"}
       /\ decision.type # "repost" => content # NULL
  /\ pc = "published" => (publishCalls = 1 /\ appends = 0)
  /\ appends <= publishCalls
  /\ appends = 1 => (pc = "finished" /\ publishResult.ok)

\* the calls of a cycle come one after the other: the decision first, the
\* text while nothing is published, the Publisher call while nothing is
\* logged, the append after the Publisher call
inSequence ==
  /\ decision' # decision => (pc = "idle" \/ pc' = "idle")
  /\ content' # content => (pc' = "idle" \/ (pc = "decided" /\ publishCalls = 0))
  /\ publishCalls' # publishCalls =>
       \/ pc' = "idle"
       \/ pc \in {"decided", "generated"} /\ publishCalls = 0 /\ appends = 0
  /\ appends' # appends => (pc' = "idle" \/ (pc = "published" /\ publishCalls = 1))

\* C39: within one cycle the decision comes first, then content generation
\* (for reply, quote_tweet and original_post only), then at most one
\* Publisher call, then at most one log append, each at most once and one
\* after the other.
C39_OneCallEachInSequence == []oneCallEach /\ [][inSequence]_vars

\* C39 happens: a reply went through all four steps, once each.
C39_Witness ==
  /\ pc = "finished"
  /\ decision.type = "reply"
  /\ content # NULL
  /\ publishCalls = 1
  /\ publishResult.ok
  /\ appends = 1
  /\ Len(log) > 0
\* C40: in simulate mode the candidate search returns an empty list, and
\* the decision of the cycle is 'original_post' or 'ignore', never a
\* reply, a repost or a quote tweet.
C40_SimulateDecidesOriginalOrIgnore ==
  (simulateMode /\ pc = "decided") =>
    /\ candidates = <<>>
    /\ decision.type \in {"original_post", "ignore"}
    /\ \A i \in 1..Len(possibleActions) : possibleActions[i].type = "original_post"

\* C40 happens: simulate mode, the afternoon window with its reply budget,
\* the search was called, and the decision is an original post.
C40_Witness ==
  /\ simulateMode
  /\ pc = "decided"
  /\ ~bypass
  /\ budgetOf(currentWindowNow, "replies") > 0
  /\ searchCalls = 1
  /\ candidates = <<>>
  /\ decision.type = "original_post"
====
